------------------------- MODULE BridgeMemoryProofs -------------------------
(***************************************************************************)
(* For any number of objects and attached references, the collector frees  *)
(* nothing that views, attached pointers and calls depend on.              *)
(*                                                                         *)
(* The inductive invariant speaks of every set of live objects that is     *)
(* closed under refs, since the collector may leave any of them: a view    *)
(* that lies in such a set has its memory in it, and so has the target of  *)
(* a pointer whose writer lies in it (Kept).                               *)
(***************************************************************************)
EXTENDS BridgeMemory, FiniteSetTheorems, TLAPS

Addresses == live \cup {Native, Null, Freed}

Types ==
  /\ live \subseteq Objects /\ held \subseteq live /\ borrowed \subseteq live
  /\ memory \in [Objects -> Addresses]
  /\ content \in [Objects -> Addresses]
  /\ through \in [Objects -> live \cup {Null}]
  /\ refs \in [Objects -> SUBSET live]
  /\ \A o \in Objects \ live : refs[o] = {}

Kept ==
  \A objects \in SUBSET live : Closed(objects) =>
    /\ \A b \in objects \ borrowed : memory[b] \in Objects => memory[b] \in objects
    /\ \A m \in Objects :
         through[m] \in objects /\ content[m] \in Objects => content[m] \in objects

Unfreed == ViewsKeepTheirMemory /\ AttachedPointersLead

\* The list of addresses that a call is made with is its own: no variable holds
\* it and no pointer leads to it.
CallKept ==
  call # NoCall =>
    /\ call.argv \in live /\ call.res \in live /\ call.argv # call.res
    /\ content[call.argv] \in refs[call.argv]
    /\ call.argv \notin held
    /\ \A m \in Objects : content[m] # call.argv
    /\ \A b \in Objects : memory[b] = call.argv => b = call.argv

IInv == Types /\ Kept /\ Unfreed /\ CallKept

-----------------------------------------------------------------------------

LEMMA InitIInv == Init => IInv
<1> SUFFICES ASSUME Init PROVE IInv
  OBVIOUS
<1> USE AddressAssumption DEF Init
<1>1. Types
  BY DEF Types, Addresses
<1>2. Kept
  BY DEF Kept, Closed
<1>3. Unfreed
  BY DEF Unfreed, ViewsKeepTheirMemory, AttachedPointersLead
<1>4. CallKept
  BY DEF CallKept
<1> QED
  BY <1>1, <1>2, <1>3, <1>4 DEF IInv

\* What C finds is live, and not the list of addresses it was called with.
LEMMA FoundIsLive ==
  ASSUME Types, CallKept, call # NoCall
  PROVE  Found \subseteq live \ {call.argv}
<1> USE AddressAssumption
<1>1. ASSUME NEW m \in Found
      PROVE  m \in live
  <2>1. live \in SUBSET Objects
    BY DEF Types
  <2>2. {content[call.argv], call.res} \cap Objects \subseteq live
    BY DEF Types, Addresses, CallKept
  <2>3. \A n \in live : content[n] \in Objects => content[n] \in live
    BY DEF Types, Addresses
  <2> QED BY <1>1, <2>1, <2>2, <2>3 DEF Found
<1>2. ASSUME NEW m \in Found
      PROVE  m # call.argv
  <2> DEFINE others == Objects \ {call.argv}
  <2>1. others \in SUBSET Objects
    OBVIOUS
  <2>2. {content[call.argv], call.res} \cap Objects \subseteq others
    BY DEF Types, CallKept
  <2>3. \A n \in others : content[n] \in Objects => content[n] \in others
    BY DEF CallKept
  <2>4. m \in others
    <3> HIDE DEF others
    <3> QED BY <1>2, <2>1, <2>2, <2>3 DEF Found
  <2> QED BY <2>4
<1> QED BY <1>1, <1>2

-----------------------------------------------------------------------------
(***************************************************************************)
(* The collector                                                           *)
(***************************************************************************)

LEMMA CollectIInv ==
  ASSUME IInv, NEW garbage \in SUBSET live, Collect(garbage)
  PROVE  IInv'
<1> USE AddressAssumption
<1> DEFINE rest == live \ garbage
<1>0. /\ live' = rest /\ held' = held /\ call' = call
      /\ borrowed' = borrowed \ garbage
      /\ rest \in SUBSET live /\ Closed(rest)
      /\ held \cap garbage = {}
  BY DEF Collect, Roots
<1>1. Types'
  <2>1. /\ live' \subseteq Objects /\ held' \subseteq live' /\ borrowed' \subseteq live'
    BY <1>0 DEF IInv, Types
  <2>2. memory' \in [Objects -> Addresses']
    BY <1>0 DEF IInv, Types, Addresses, Collect
  <2>3. content' \in [Objects -> Addresses']
    BY <1>0 DEF IInv, Types, Addresses, Collect
  <2>4. through' \in [Objects -> live' \cup {Null}]
    BY <1>0 DEF IInv, Types, Collect
  <2>5. refs' \in [Objects -> SUBSET live']
    <3> SUFFICES ASSUME NEW o \in Objects, o \notin garbage
                 PROVE  refs[o] \subseteq rest
      BY <1>0 DEF Collect
    <3> QED BY <1>0 DEF IInv, Types, Closed
  <2>6. \A o \in Objects \ live' : refs'[o] = {}
    BY <1>0 DEF IInv, Types, Collect
  <2> QED BY <2>1, <2>2, <2>3, <2>4, <2>5, <2>6 DEF Types
<1>2. Kept'
  <2> SUFFICES ASSUME NEW objects \in SUBSET live', Closed(objects)'
               PROVE  /\ \A b \in objects \ borrowed' :
                           memory'[b] \in Objects => memory'[b] \in objects
                      /\ \A m \in Objects :
                           through'[m] \in objects /\ content'[m] \in Objects =>
                             content'[m] \in objects
    BY DEF Kept
  <2>1. objects \in SUBSET live /\ Closed(objects)
    BY <1>0 DEF Closed, Collect, IInv, Types
  <2>2. \A b \in objects \ borrowed' : memory'[b] \in Objects => memory'[b] \in objects
    BY <1>0, <2>1 DEF Collect, IInv, Types, Kept
  <2>3. \A m \in Objects : through'[m] \in objects /\ content'[m] \in Objects =>
                             content'[m] \in objects
    BY <1>0, <2>1 DEF Collect, IInv, Types, Kept
  <2> QED BY <2>2, <2>3
<1>3. Unfreed'
  <2>1. /\ \A b \in rest \ borrowed : memory[b] \in Objects => memory[b] \in rest
        /\ \A m \in Objects : through[m] \in rest /\ content[m] \in Objects => content[m] \in rest
    <3> HIDE DEF rest
    <3> QED BY <1>0 DEF IInv, Kept
  <2>2. ViewsKeepTheirMemory'
    BY <1>0, <2>1 DEF Collect, IInv, Types, Unfreed, ViewsKeepTheirMemory
  <2>3. AttachedPointersLead'
    BY <1>0, <2>1 DEF Collect, IInv, Types, Unfreed, AttachedPointersLead
  <2> QED BY <2>2, <2>3 DEF Unfreed
<1>4. CallKept'
  <2> SUFFICES ASSUME call # NoCall
               PROVE  CallKept'
    BY <1>0 DEF CallKept
  <2>1. call.argv \in rest /\ call.res \in rest /\ content[call.argv] \in rest
    BY <1>0 DEF Collect, Roots, IInv, Types, CallKept, Closed
  <2>2. content'[call.argv] = content[call.argv] /\ refs'[call.argv] = refs[call.argv]
    BY <2>1 DEF Collect, IInv, Types
  <2>3. \A m \in Objects : content'[m] # call.argv
    BY <2>1 DEF Collect, IInv, Types, CallKept
  <2>4. \A b \in Objects : memory'[b] = call.argv => b = call.argv
    BY <2>1 DEF Collect, IInv, Types, CallKept
  <2> QED BY <1>0, <2>1, <2>2, <2>3, <2>4 DEF IInv, CallKept
<1> QED BY <1>1, <1>2, <1>3, <1>4 DEF IInv

-----------------------------------------------------------------------------
(***************************************************************************)
(* Steps that make no object and attach nothing                            *)
(***************************************************************************)

\* A step that stores a pointer, in memory that is not the call's own list of
\* addresses, under the name of a Buffer that has its target attached.
LEMMA StoreIInv ==
  ASSUME IInv, NEW m \in Objects, NEW to \in Addresses, NEW writer \in live \cup {Null},
         UNCHANGED <<live, held, memory, call, borrowed>>,
         content' = [content EXCEPT ![m] = to],
         through' = [through EXCEPT ![m] = writer],
         refs' \in [Objects -> SUBSET live],
         \A o \in Objects : refs[o] \subseteq refs'[o] /\ (o \notin live => refs'[o] = {}),
         writer \in live =>
           /\ to # Freed
           /\ \A objects \in SUBSET live :
                Closed(objects)' /\ writer \in objects /\ to \in Objects => to \in objects,
         call # NoCall => m # call.argv /\ to # call.argv
  PROVE  IInv'
<1> USE AddressAssumption
<1>1. Types'
  BY DEF IInv, Types, Addresses
<1>2. Kept'
  <2> SUFFICES ASSUME NEW objects \in SUBSET live, Closed(objects)'
               PROVE  /\ \A b \in objects \ borrowed :
                           memory[b] \in Objects => memory[b] \in objects
                      /\ \A n \in Objects :
                           through'[n] \in objects /\ content'[n] \in Objects =>
                             content'[n] \in objects
    BY DEF Kept
  <2>1. Closed(objects)
    BY DEF Closed, IInv, Types
  <2>2. \A b \in objects \ borrowed : memory[b] \in Objects => memory[b] \in objects
    BY <2>1 DEF IInv, Kept
  <2>3. ASSUME NEW n \in Objects, through'[n] \in objects, content'[n] \in Objects
        PROVE  content'[n] \in objects
    <3>1. CASE n = m
      <4>1. content'[n] = to /\ through'[n] = writer
        BY <3>1 DEF IInv, Types
      <4> QED BY <2>3, <4>1
    <3>2. CASE n # m
      <4>1. content'[n] = content[n] /\ through'[n] = through[n]
        BY <3>2 DEF IInv, Types
      <4> QED BY <2>1, <2>3, <4>1 DEF IInv, Kept
    <3> QED BY <3>1, <3>2
  <2> QED BY <2>2, <2>3
<1>3. Unfreed'
  BY DEF IInv, Types, Unfreed, ViewsKeepTheirMemory, AttachedPointersLead
<1>4. CallKept'
  BY DEF IInv, Types, CallKept
<1> QED BY <1>1, <1>2, <1>3, <1>4 DEF IInv

LEMMA WritePointerIInv ==
  ASSUME IInv, NEW b \in held, NEW p \in held, writePointer(b, p)
  PROVE  IInv'
<1> USE AddressAssumption
<1> DEFINE m == memory[b]
<1> DEFINE to == memory[p]
<1> DEFINE writer == IF p \in borrowed THEN Null ELSE b
<1>1. m \in Objects /\ to \in Addresses /\ to \in Objects /\ writer \in live \cup {Null}
  BY DEF writePointer, Usable, IInv, Types
<1>2. /\ refs' \in [Objects -> SUBSET live]
      /\ \A o \in Objects : refs[o] \subseteq refs'[o] /\ (o \notin live => refs'[o] = {})
  BY DEF writePointer, IInv, Types
<1>3. ASSUME writer \in live, NEW objects \in SUBSET live, Closed(objects)', writer \in objects
      PROVE  to \in objects
  <2>1. writer = b /\ p \notin borrowed
    BY <1>3 DEF IInv, Types
  <2>2. p \in objects
    BY <1>3, <2>1 DEF Closed, writePointer, IInv, Types
  <2>3. Closed(objects)
    BY <1>2, <1>3 DEF Closed, IInv, Types
  <2> QED BY <1>1, <1>3, <2>1, <2>2, <2>3 DEF IInv, Kept
<1>4. to # Freed
  BY <1>1
<1>5. call # NoCall => m # call.argv /\ to # call.argv
  BY DEF IInv, Types, CallKept
<1>6. /\ UNCHANGED <<live, held, memory, call, borrowed>>
      /\ content' = [content EXCEPT ![m] = to]
      /\ through' = [through EXCEPT ![m] = writer]
  BY DEF writePointer
<1> HIDE DEF m, to, writer
<1> QED BY <1>1, <1>2, <1>3, <1>4, <1>5, <1>6, StoreIInv

LEMMA WriteNullIInv ==
  ASSUME IInv, NEW b \in held, writeNull(b)
  PROVE  IInv'
<1> USE AddressAssumption
<1> DEFINE m == memory[b]
<1>1. m \in Objects /\ (call # NoCall => m # call.argv /\ Null # call.argv)
  BY DEF writeNull, Usable, IInv, Types, CallKept
<1>2. /\ UNCHANGED <<live, held, memory, call, borrowed, refs>>
      /\ content' = [content EXCEPT ![m] = Null]
      /\ through' = [through EXCEPT ![m] = Null]
  BY DEF writeNull
<1>3. /\ refs' \in [Objects -> SUBSET live] /\ Null \notin live /\ Null \in Addresses
      /\ \A o \in Objects : refs[o] \subseteq refs'[o] /\ (o \notin live => refs'[o] = {})
  BY <1>2 DEF IInv, Types, Addresses
<1> HIDE DEF m
<1> QED BY <1>1, <1>2, <1>3, StoreIInv

LEMMA SetStructIInv ==
  ASSUME IInv, NEW b \in held, NEW a \in held, SetStruct(b, a)
  PROVE  IInv'
<1> USE AddressAssumption
<1> DEFINE m == memory[b]
<1> DEFINE to == content[memory[a]]
<1>1. m \in Objects /\ (call # NoCall => m # call.argv /\ to # call.argv)
  BY DEF SetStruct, Usable, IInv, Types, CallKept
<1>2. /\ UNCHANGED <<live, held, memory, call, borrowed, refs>>
      /\ content' = [content EXCEPT ![m] = to]
      /\ through' = [through EXCEPT ![m] = Null]
  BY DEF SetStruct
<1>3. /\ refs' \in [Objects -> SUBSET live] /\ Null \notin live /\ to \in Addresses
      /\ \A o \in Objects : refs[o] \subseteq refs'[o] /\ (o \notin live => refs'[o] = {})
  BY <1>2 DEF IInv, Types, Addresses, SetStruct, Usable
<1> HIDE DEF m, to
<1> QED BY <1>1, <1>2, <1>3, StoreIInv

LEMMA NativeStoreIInv ==
  ASSUME IInv, NativeStore
  PROVE  IInv'
<1> USE AddressAssumption
<1>1. PICK m \in Found, to \in Found \cup {Native} :
        content' = [content EXCEPT ![m] = to] /\ through' = [through EXCEPT ![m] = Null]
  BY DEF NativeStore
<1>2. Found \subseteq live \ {call.argv}
  BY FoundIsLive DEF IInv, NativeStore
<1>3. /\ UNCHANGED <<live, held, memory, call, borrowed, refs>>
      /\ m \in Objects /\ to \in Addresses /\ Null \notin live
      /\ m # call.argv /\ (call # NoCall => to # call.argv)
  BY <1>1, <1>2 DEF NativeStore, IInv, Types, Addresses, CallKept
<1>4. /\ refs' \in [Objects -> SUBSET live]
      /\ \A o \in Objects : refs[o] \subseteq refs'[o] /\ (o \notin live => refs'[o] = {})
  BY <1>3 DEF IInv, Types
<1> QED BY <1>1, <1>3, <1>4, StoreIInv

LEMMA ForgetIInv ==
  ASSUME IInv, NEW o \in held, Forget(o)
  PROVE  IInv'
<1>1. /\ held' \subseteq held
      /\ UNCHANGED <<live, memory, content, refs, call, borrowed, through>>
  BY DEF Forget
<1>2. Types' /\ Kept' /\ Unfreed'
  BY <1>1 DEF IInv, Types, Addresses, Kept, Closed, Unfreed, ViewsKeepTheirMemory,
              AttachedPointersLead
<1>3. CallKept'
  BY <1>1 DEF IInv, CallKept
<1> QED BY <1>2, <1>3 DEF IInv

LEMMA CallEndsIInv ==
  ASSUME IInv, UNCHANGED <<live, held, memory, content, refs, borrowed, through>>,
         call' # NoCall => call # NoCall /\ call'.argv = call.argv /\ call'.res = call.res
  PROVE  IInv'
<1>1. Types' /\ Kept' /\ Unfreed'
  BY DEF IInv, Types, Addresses, Kept, Closed, Unfreed, ViewsKeepTheirMemory,
         AttachedPointersLead
<1>2. CallKept'
  BY DEF IInv, CallKept
<1> QED BY <1>1, <1>2 DEF IInv

-----------------------------------------------------------------------------
(***************************************************************************)
(* Steps that make objects                                                 *)
(***************************************************************************)

\* What a new object changes for the old ones.
LEMMA OldClosed ==
  ASSUME Types, NEW new \in SUBSET (Objects \ live), live' = live \cup new,
         \A o \in live : refs'[o] = refs[o],
         NEW objects \in SUBSET live', Closed(objects)'
  PROVE  Closed(objects \cap live)
BY DEF Closed, Types

\* A step that makes the Buffer s at an address, with some objects attached: its
\* memory goes where they go, unless it is borrowed.
LEMMA ViewIInv ==
  ASSUME IInv, NEW s \in Objects \ live, NEW to \in Addresses \cup {s},
         NEW attached \in SUBSET live,
         live' = live \cup {s}, held' = held \cup {s},
         memory' = [memory EXCEPT ![s] = to],
         refs' = [refs EXCEPT ![s] = attached],
         UNCHANGED <<content, through>>,
         borrowed' \in {borrowed, borrowed \cup {s}},
         s \notin borrowed' =>
           /\ to # Freed
           /\ to \in Objects \ {s} =>
                \A objects \in SUBSET live :
                  Closed(objects) /\ attached \subseteq objects => to \in objects,
         call' \in {call, NoCall},
         call' # NoCall => to # call.argv
  PROVE  IInv'
<1> USE AddressAssumption
<1>1. Types'
  <2>1. live' \subseteq Objects /\ held' \subseteq live' /\ borrowed' \subseteq live'
    BY DEF IInv, Types
  <2>2. /\ memory' \in [Objects -> Addresses']
        /\ content' \in [Objects -> Addresses']
        /\ through' \in [Objects -> live' \cup {Null}]
    BY DEF IInv, Types, Addresses
  <2>3. /\ refs' \in [Objects -> SUBSET live']
        /\ \A o \in Objects \ live' : refs'[o] = {}
    BY DEF IInv, Types
  <2> QED BY <2>1, <2>2, <2>3 DEF Types
<1>2. Kept'
  <2> SUFFICES ASSUME NEW objects \in SUBSET live', Closed(objects)'
               PROVE  /\ \A b \in objects \ borrowed' :
                           memory'[b] \in Objects => memory'[b] \in objects
                      /\ \A m \in Objects :
                           through'[m] \in objects /\ content'[m] \in Objects =>
                             content'[m] \in objects
    BY DEF Kept
  <2> DEFINE old == objects \cap live
  <2>1. Closed(old) /\ old \in SUBSET live
    <3>1. Types /\ {s} \in SUBSET (Objects \ live) /\ live' = live \cup {s} BY DEF IInv
    <3>2. \A o \in live : refs'[o] = refs[o] BY DEF IInv, Types
    <3> QED BY <3>1, <3>2, OldClosed
  <2>2. /\ \A b \in old \ borrowed : memory[b] \in Objects => memory[b] \in old
        /\ \A m \in Objects : through[m] \in old /\ content[m] \in Objects => content[m] \in old
    <3> HIDE DEF old
    <3> QED BY <2>1 DEF IInv, Kept
  <2>3. ASSUME NEW b \in objects \ borrowed', memory'[b] \in Objects
        PROVE  memory'[b] \in objects
    <3>1. CASE b = s
      <4>1. memory'[b] = to /\ (to # s => to \in Objects \ {s})
        BY <2>3, <3>1 DEF IInv, Types
      <4>2. attached \subseteq old
        BY <3>1, <2>3 DEF Closed, IInv, Types
      <4>3. to # s => to \in old
        <5> HIDE DEF old
        <5> QED BY <2>1, <2>3, <3>1, <4>1, <4>2
      <4> QED BY <3>1, <4>1, <4>3
    <3>2. CASE b # s
      BY <2>2, <2>3, <3>2 DEF IInv, Types
    <3> QED BY <3>1, <3>2
  <2>4. ASSUME NEW m \in Objects, through'[m] \in objects, content'[m] \in Objects
        PROVE  content'[m] \in objects
    BY <2>2, <2>4 DEF IInv, Types
  <2> QED BY <2>3, <2>4
<1>3. Unfreed'
  <2>1. ViewsKeepTheirMemory'
    BY DEF IInv, Types, Unfreed, ViewsKeepTheirMemory
  <2>2. AttachedPointersLead'
    BY DEF IInv, Types, Unfreed, AttachedPointersLead
  <2> QED BY <2>1, <2>2 DEF Unfreed
<1>4. CallKept'
  BY DEF IInv, Types, CallKept
<1> QED BY <1>1, <1>2, <1>3, <1>4 DEF IInv

LEMMA AllocIInv ==
  ASSUME IInv, NEW b \in Objects \ live, alloc(b)
  PROVE  IInv'
<1>1. refs' = [refs EXCEPT ![b] = {}]
  BY DEF alloc, IInv, Types
<1>2. call # NoCall => b # call.argv
  BY DEF IInv, CallKept
<1> QED BY <1>1, <1>2, ViewIInv, AddressAssumption DEF alloc

LEMMA ReadPointerIInv ==
  ASSUME IInv, NEW b \in held, NEW s \in Objects \ live, readPointer(b, s)
  PROVE  IInv'
<1> DEFINE to == content[memory[b]]
<1>1. refs' = [refs EXCEPT ![s] = {}]
  BY DEF readPointer, IInv, Types
<1>2. to \in Addresses /\ (call # NoCall => to # call.argv)
  BY DEF readPointer, Usable, IInv, Types, CallKept
<1>3. /\ live' = live \cup {s} /\ held' = held \cup {s}
      /\ memory' = [memory EXCEPT ![s] = to]
      /\ borrowed' = borrowed \cup {s} /\ s \in borrowed'
      /\ UNCHANGED <<content, call, through>>
  BY DEF readPointer
<1> HIDE DEF to
<1> QED BY <1>1, <1>2, <1>3, ViewIInv

LEMMA ReinterpretIInv ==
  ASSUME IInv, NEW b \in held, NEW s \in Objects \ live, reinterpret(b, s)
  PROVE  IInv'
<1> DEFINE to == memory[b]
<1>1. to \in Addresses /\ to \in Objects /\ to # Freed /\ b \in live
  BY AddressAssumption DEF reinterpret, Usable, IInv, Types
<1>2. call # NoCall => to # call.argv
  BY DEF IInv, Types, CallKept
<1>3. ASSUME s \notin borrowed', NEW objects \in SUBSET live, Closed(objects), {b} \subseteq objects
      PROVE  to \in objects
  BY <1>1, <1>3 DEF reinterpret, IInv, Kept
<1>4. /\ live' = live \cup {s} /\ held' = held \cup {s}
      /\ memory' = [memory EXCEPT ![s] = to]
      /\ refs' = [refs EXCEPT ![s] = {b}]
      /\ borrowed' \in {borrowed, borrowed \cup {s}}
      /\ UNCHANGED <<content, call, through>>
  BY DEF reinterpret
<1> HIDE DEF to
<1>5. {b} \in SUBSET live
  BY <1>1
<1> QED BY <1>1, <1>2, <1>3, <1>4, <1>5, ViewIInv

LEMMA FinishDerefIInv ==
  ASSUME IInv, NEW s \in Objects \ live, FinishDeref(s)
  PROVE  IInv'
<1> DEFINE to == content[call.res]
<1>1. refs' = [refs EXCEPT ![s] = {}]
  BY DEF FinishDeref, IInv, Types
<1>2. to \in Addresses
  BY DEF FinishDeref, IInv, Types, CallKept
<1>3. /\ live' = live \cup {s} /\ held' = held \cup {s}
      /\ memory' = [memory EXCEPT ![s] = to]
      /\ borrowed' = borrowed \cup {s} /\ s \in borrowed' /\ call' = NoCall
      /\ UNCHANGED <<content, through>>
  BY DEF FinishDeref
<1> HIDE DEF to
<1> QED BY <1>1, <1>2, <1>3, ViewIInv

LEMMA CallIInv ==
  ASSUME IInv, NEW v \in held, NEW x \in Objects \ live, NEW argv \in Objects \ live,
         NEW res \in Objects \ live, NEW copied \in BOOLEAN, NEW state,
         Call(v, x, argv, res, copied, state)
  PROVE  IInv'
<1> USE AddressAssumption
<1> DEFINE new == {x, argv, res}
<1> DEFINE to == IF copied THEN content[memory[v]] ELSE memory[v]
<1>0. x # argv /\ x # res /\ argv # res
  <2>1. Cardinality({x, argv, res}) = 3
    BY DEF Call
  <2>2. /\ x = argv => {x, argv, res} = {x, res}
        /\ x = res => {x, argv, res} = {x, argv}
        /\ argv = res => {x, argv, res} = {x, res}
    OBVIOUS
  <2>3. ASSUME NEW y
        PROVE  Cardinality({x, y}) # 3
    <3>1. IsFiniteSet({x}) /\ Cardinality({x}) = 1
      BY FS_Singleton
    <3>2. {x} \cup {y} = {x, y}
      OBVIOUS
    <3>3. Cardinality({x} \cup {y}) = IF y \in {x} THEN Cardinality({x}) ELSE Cardinality({x}) + 1
      BY <3>1, FS_AddElement
    <3> QED BY <3>1, <3>2, <3>3
  <2> QED BY <2>1, <2>2, <2>3
<1>1. /\ live' = live \cup new /\ UNCHANGED <<held, borrowed>>
      /\ memory' = [o \in Objects |-> IF o \in new THEN o ELSE memory[o]]
      /\ content' = [content EXCEPT ![x] = to, ![argv] = x]
      /\ refs' = [refs EXCEPT ![x] = IF copied THEN {} ELSE {v}, ![argv] = {x}]
      /\ through' = [through EXCEPT ![x] = IF copied \/ v \in borrowed THEN Null ELSE x,
                                    ![argv] = argv]
      /\ call' = [argv |-> argv, res |-> res, state |-> state]
  BY DEF Call
<1>2. /\ v \in live /\ memory[v] \in Objects /\ memory[v] \in live /\ to \in Addresses
      /\ ~copied => to = memory[v]
  BY DEF Call, Usable, IInv, Types, Addresses
<1>3. new \in SUBSET (Objects \ live)
  OBVIOUS
<1> HIDE DEF to
<1>4. /\ content'[x] = to /\ content'[argv] = x
      /\ \A m \in Objects \ {x, argv} : content'[m] = content[m] /\ through'[m] = through[m]
      /\ through'[x] = IF copied \/ v \in borrowed THEN Null ELSE x
      /\ through'[argv] = argv
      /\ refs'[x] = IF copied THEN {} ELSE {v}
      /\ refs'[argv] = {x}
      /\ \A o \in Objects \ {x, argv} : refs'[o] = refs[o]
  BY <1>0, <1>1 DEF IInv, Types
<1>5. Types'
  <2>1. live' \subseteq Objects /\ held' \subseteq live' /\ borrowed' \subseteq live'
    BY <1>1, <1>3 DEF IInv, Types
  <2>2. memory' \in [Objects -> Addresses']
    BY <1>1 DEF IInv, Types, Addresses
  <2>3. content' \in [Objects -> Addresses']
    BY <1>1, <1>2 DEF IInv, Types, Addresses
  <2>4. through' \in [Objects -> live' \cup {Null}]
    BY <1>1 DEF IInv, Types
  <2>5. refs' \in [Objects -> SUBSET live']
    BY <1>1, <1>2 DEF IInv, Types
  <2>6. \A o \in Objects \ live' : refs'[o] = {}
    BY <1>1, <1>4 DEF IInv, Types
  <2> QED BY <2>1, <2>2, <2>3, <2>4, <2>5, <2>6 DEF Types
<1>6. Kept'
  <2> SUFFICES ASSUME NEW objects \in SUBSET live', Closed(objects)'
               PROVE  /\ \A b \in objects \ borrowed' :
                           memory'[b] \in Objects => memory'[b] \in objects
                      /\ \A m \in Objects :
                           through'[m] \in objects /\ content'[m] \in Objects =>
                             content'[m] \in objects
    BY DEF Kept
  <2> DEFINE old == objects \cap live
  <2>1. Closed(old) /\ old \in SUBSET live
    <3>1. \A o \in live : refs'[o] = refs[o]
      BY <1>4 DEF IInv, Types
    <3> HIDE DEF new
    <3> QED BY <3>1, <1>1, <1>3, OldClosed DEF IInv
  <2>2. /\ \A b \in old \ borrowed : memory[b] \in Objects => memory[b] \in old
        /\ \A m \in Objects : through[m] \in old /\ content[m] \in Objects => content[m] \in old
    <3> HIDE DEF old
    <3> QED BY <2>1 DEF IInv, Kept
  <2>3. ASSUME NEW b \in objects \ borrowed', memory'[b] \in Objects
        PROVE  memory'[b] \in objects
    BY <1>1, <1>5, <2>2, <2>3 DEF Types
  <2>4. ASSUME NEW m \in Objects, through'[m] \in objects, content'[m] \in Objects
        PROVE  content'[m] \in objects
    <3>1. CASE m = x
      <4>1. ~copied /\ v \notin borrowed /\ x \in objects
        BY <1>4, <1>5, <2>4, <3>1 DEF Types
      <4>2. v \in old
        BY <1>2, <1>4, <4>1 DEF Closed
      <4> QED BY <1>2, <1>4, <2>2, <3>1, <4>1, <4>2
    <3>2. CASE m = argv
      BY <1>4, <2>4, <3>2 DEF Closed
    <3>3. CASE m \notin {x, argv}
      <4>1. content'[m] = content[m] /\ through'[m] = through[m]
        BY <1>4, <3>3
      <4>2. through[m] \in live
        BY <1>5, <2>4, <4>1 DEF IInv, Types
      <4> QED BY <2>2, <2>4, <4>1, <4>2
    <3> QED BY <3>1, <3>2, <3>3
  <2> QED BY <2>3, <2>4
<1>7. Unfreed'
  <2>1. ViewsKeepTheirMemory'
    BY <1>1 DEF IInv, Types, Unfreed, ViewsKeepTheirMemory
  <2>2. ASSUME NEW m \in Objects, through'[m] \in live'
        PROVE  content'[m] # Freed
    <3>1. CASE m = x
      BY <1>2, <1>4, <1>5, <2>2, <3>1 DEF Types
    <3>2. CASE m = argv
      BY <1>4, <3>2
    <3>3. CASE m \notin {x, argv}
      <4>1. content'[m] = content[m] /\ through'[m] = through[m]
        BY <1>4, <3>3
      <4>2. through[m] \in live
        BY <1>5, <2>2, <4>1 DEF IInv, Types
      <4> QED BY <4>1, <4>2 DEF IInv, Unfreed, AttachedPointersLead
    <3> QED BY <3>1, <3>2, <3>3
  <2> QED BY <2>1, <2>2 DEF Unfreed, AttachedPointersLead
<1>8. CallKept'
  <2>1. call'.argv = argv /\ call'.res = res
    BY <1>1
  <2>2. argv \in live' /\ res \in live' /\ argv \notin held'
    BY <1>1 DEF IInv, Types
  <2>3. \A m \in Objects : content'[m] # argv
    BY <1>0, <1>2, <1>4 DEF IInv, Types, Addresses
  <2>4. \A b \in Objects : memory'[b] = argv => b = argv
    BY <1>1 DEF IInv, Types, Addresses
  <2> QED BY <1>0, <1>4, <2>1, <2>2, <2>3, <2>4 DEF CallKept
<1> QED BY <1>5, <1>6, <1>7, <1>8 DEF IInv

-----------------------------------------------------------------------------

LEMMA NextIInv == IInv /\ [Next]_vars => IInv'
<1> SUFFICES ASSUME IInv, [Next]_vars PROVE IInv'
  OBVIOUS
<1>1. CASE Ref
  <2>1. ASSUME NEW b \in Objects \ live, alloc(b) PROVE IInv'
    BY <2>1, AllocIInv
  <2>2. ASSUME NEW b \in held, Forget(b) \/ writeNull(b) PROVE IInv'
    BY <2>2, ForgetIInv, WriteNullIInv
  <2>3. ASSUME NEW b \in held, NEW o \in held, writePointer(b, o) \/ SetStruct(b, o) PROVE IInv'
    BY <2>3, WritePointerIInv, SetStructIInv
  <2>4. ASSUME NEW b \in held, NEW s \in Objects \ live, readPointer(b, s) \/ reinterpret(b, s)
        PROVE  IInv'
    BY <2>4, ReadPointerIInv, ReinterpretIInv
  <2> QED BY <1>1, <2>1, <2>2, <2>3, <2>4 DEF Ref
<1>2. CASE \E garbage \in SUBSET live : Collect(garbage)
  BY <1>2, CollectIInv
<1>3. CASE ForeignCall
  <2>1. ASSUME NEW v \in held, NEW x \in Objects \ live, NEW argv \in Objects \ live,
               NEW res \in Objects \ live, NEW copied \in BOOLEAN,
               FFICall(v, x, argv, res, copied) \/ FFICallAsync(v, x, argv, res, copied)
        PROVE  IInv'
    BY <2>1, CallIInv DEF FFICall, FFICallAsync
  <2>2. CASE AsyncFFICall
    <3>1. call' = [call EXCEPT !.state = "running"]
      BY <2>2 DEF AsyncFFICall
    <3>2. call'.argv = call.argv /\ call'.res = call.res
      BY <3>1
    <3> QED BY <2>2, <3>2, CallEndsIInv DEF AsyncFFICall
  <2>3. CASE NativeStore
    BY <2>3, NativeStoreIInv
  <2>4. CASE Finish
    BY <2>4, CallEndsIInv DEF Finish
  <2>5. ASSUME NEW s \in Objects \ live, FinishDeref(s) PROVE IInv'
    BY <2>5, FinishDerefIInv
  <2> QED BY <1>3, <2>1, <2>2, <2>3, <2>4, <2>5 DEF ForeignCall
<1>4. CASE UNCHANGED vars
  BY <1>4, CallEndsIInv DEF vars
<1> QED BY <1>1, <1>2, <1>3, <1>4 DEF Next

LEMMA Invariant == Spec => []IInv
BY InitIInv, NextIInv, PTL DEF Spec

\* reinterpret and slice attach what they cut up: the memory of a Buffer that was
\* not made of an address is there for as long as the Buffer is.
THEOREM ViewsKeep == Spec => []ViewsKeepTheirMemory
BY Invariant, PTL DEF IInv, Unfreed

\* writePointer attaches what it points to: the pointer leads somewhere for as
\* long as the Buffer it was written through is there.
THEOREM PointersLead == Spec => []AttachedPointersLead
BY Invariant, PTL DEF IInv, Unfreed

\* ffi_call_async keeps addresses only, and C finds its arguments and a place
\* for its result all the same: the callback mentions their Buffers.
THEOREM StorageKept == Spec => []CallFindsItsStorage
<1>1. IInv => CallFindsItsStorage
  BY DEF IInv, Types, CallKept, CallFindsItsStorage
<1> QED BY Invariant, <1>1, PTL
=============================================================================
