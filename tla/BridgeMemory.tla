---------------------------- MODULE BridgeMemory ----------------------------
(***************************************************************************)
(* Memory that JavaScript and C share: the Buffers of ref.js and ref.cc    *)
(* and the calls of _foreign_function.js and ffi.cc, against the garbage   *)
(* collector.                                                              *)
(*                                                                         *)
(* C keeps addresses only.  Memory stays where it is as long as the        *)
(* collector finds the Buffer it was allocated with: from what the program *)
(* holds, through the lists _refs that ref.js attaches to Buffers, and     *)
(* from the callback of a call on the thread pool.  An allocation is named *)
(* by its Buffer, and abstracted to one pointer that is stored in it; a    *)
(* structure that nests another is an allocation with two views.           *)
(*                                                                         *)
(* Two histories say what the code makes no promise for: Buffers made of   *)
(* an address (borrowed), and pointers that were not written through a     *)
(* Buffer that still exists (through).                                     *)
(***************************************************************************)
EXTENDS Integers, FiniteSets, Functions

CONSTANTS
  Objects,  \* the objects of JavaScript, Buffers among them
  Native,   \* memory that C has allocated
  Null,     \* the null pointer
  Freed,    \* an address at which there is nothing any more
  NoCall,   \* no call is being made
  MaxRefs   \* bound on the objects that are attached to Buffers

ASSUME AddressAssumption ==
  /\ {Native, Null, Freed} \cap Objects = {}
  /\ Native # Null /\ Native # Freed /\ Null # Freed
ASSUME CallAssumption ==
  NoCall \notin [argv: Objects, res: Objects, state: {"queued", "running"}]

VARIABLES
  live,      \* the objects that have not been collected
  held,      \* those the program has in variables
  memory,    \* the allocation that each Buffer is a view of
  content,   \* the pointer stored in each allocation
  refs,      \* _refs, and the parent of a slice
  call,      \* the Buffers of ffi_call or ffi_call_async, and how far it is
  borrowed,  \* history: Buffers made of an address that was read
  through    \* history: the Buffer a pointer was written through, or Null

vars == <<live, held, memory, content, refs, call, borrowed, through>>

Allocations == Objects \cup {Native}

Init ==
  /\ live = {} /\ held = {}
  /\ memory = [o \in Objects |-> Null]
  /\ content = [m \in Objects |-> Null]
  /\ refs = [o \in Objects |-> {}]
  /\ call = NoCall
  /\ borrowed = {}
  /\ through = [m \in Objects |-> Null]

-----------------------------------------------------------------------------
(***************************************************************************)
(* The collector                                                           *)
(***************************************************************************)

\* The callback of ffi_call_async does not mention the Buffers.
RootsUnmentioned == held

\* The variables of the program, among them those of a call: the closure that
\* is the callback mentions them, in C++ there are only their addresses.
Roots == held \cup (IF call = NoCall THEN {} ELSE {call.argv, call.res})

Closed(objects) == \A o \in objects : refs[o] \subseteq objects

\* The collector frees objects that only one another refer to, all of them or
\* some, with the memory they were allocated with.
Collect(garbage) ==
  /\ garbage # {} /\ garbage \cap Roots = {}
  /\ Closed(live \ garbage)
  /\ live' = live \ garbage
  /\ memory' = [b \in Objects |-> IF b \in garbage THEN Null
                                  ELSE IF memory[b] \in garbage THEN Freed ELSE memory[b]]
  /\ content' = [m \in Objects |-> IF m \in garbage THEN Null
                                   ELSE IF content[m] \in garbage THEN Freed
                                   ELSE content[m]]
  /\ refs' = [o \in Objects |-> IF o \in garbage THEN {} ELSE refs[o]]
  /\ borrowed' = borrowed \ garbage
  /\ through' = [m \in Objects |-> IF {m, through[m]} \cap garbage # {} THEN Null ELSE through[m]]
  /\ UNCHANGED <<held, call>>

-----------------------------------------------------------------------------
(***************************************************************************)
(* ref                                                                     *)
(***************************************************************************)

\* A view of memory that is not C's own and has not gone.
Usable(b) == b \in held /\ memory[b] \in Objects

New(b) == b \in Objects \ live

Attached == FoldFunction(+, 0, [o \in Objects |-> Cardinality(refs[o])])

\* A Buffer of its own.
alloc(b) ==
  /\ New(b)
  /\ live' = live \cup {b} /\ held' = held \cup {b}
  /\ memory' = [memory EXCEPT ![b] = b]
  /\ UNCHANGED <<content, refs, call, borrowed, through>>

\* Without attaching (a faulty variant).
_writePointer(b, p) ==
  /\ Usable(b) /\ Usable(p) /\ memory[b] # memory[p]
  /\ content' = [content EXCEPT ![memory[b]] = memory[p]]
  /\ through' = [through EXCEPT ![memory[b]] = IF p \in borrowed THEN Null ELSE b]
  /\ UNCHANGED <<live, held, memory, refs, call, borrowed>>

\* The address of p, and p attached to the Buffer that it is written through.
writePointer(b, p) ==
  /\ Usable(b) /\ Usable(p) /\ memory[b] # memory[p]
  /\ content' = [content EXCEPT ![memory[b]] = memory[p]]
  /\ Attached < MaxRefs
  /\ refs' = [refs EXCEPT ![b] = @ \cup {p}]
  /\ through' = [through EXCEPT ![memory[b]] = IF p \in borrowed THEN Null ELSE b]
  /\ UNCHANGED <<live, held, memory, call, borrowed>>

\* The address of ref.NULL.
writeNull(b) ==
  /\ Usable(b)
  /\ content' = [content EXCEPT ![memory[b]] = Null]
  /\ through' = [through EXCEPT ![memory[b]] = Null]
  /\ UNCHANGED <<live, held, memory, refs, call, borrowed>>

\* A Buffer at the address that is read.  Nothing is attached to it.
readPointer(b, s) ==
  /\ Usable(b) /\ New(s)
  /\ content[memory[b]] \in Allocations \cup {Freed}
  /\ live' = live \cup {s} /\ held' = held \cup {s}
  /\ memory' = [memory EXCEPT ![s] = content[memory[b]]]
  /\ borrowed' = borrowed \cup {s}
  /\ UNCHANGED <<content, refs, call, through>>

\* Without attaching (a faulty variant).
_reinterpret(b, s) ==
  /\ Usable(b) /\ New(s)
  /\ live' = live \cup {s} /\ held' = held \cup {s}
  /\ memory' = [memory EXCEPT ![s] = memory[b]]
  /\ borrowed' = IF b \in borrowed THEN borrowed \cup {s} ELSE borrowed
  /\ UNCHANGED <<content, refs, call, through>>

\* Another view, with the first one attached; a slice has it as its parent.
reinterpret(b, s) ==
  /\ Usable(b) /\ New(s)
  /\ Attached < MaxRefs
  /\ live' = live \cup {s} /\ held' = held \cup {s}
  /\ memory' = [memory EXCEPT ![s] = memory[b]]
  /\ refs' = [refs EXCEPT ![s] = {b}]
  /\ borrowed' = IF b \in borrowed THEN borrowed \cup {s} ELSE borrowed
  /\ UNCHANGED <<content, call, through>>

\* set of a structure: the bytes are copied, what is attached is not.
SetStruct(b, a) ==
  /\ Usable(b) /\ Usable(a) /\ memory[a] # memory[b]
  /\ content' = [content EXCEPT ![memory[b]] = content[memory[a]]]
  /\ through' = [through EXCEPT ![memory[b]] = Null]
  /\ UNCHANGED <<live, held, memory, refs, call, borrowed>>

\* The program forgets an object.
Forget(o) ==
  /\ o \in held
  /\ held' = held \ {o}
  /\ UNCHANGED <<live, memory, content, refs, call, borrowed, through>>

-----------------------------------------------------------------------------
(***************************************************************************)
(* Calls                                                                   *)
(***************************************************************************)

\* The storage of a call with the argument v, before C is called: x has the
\* argument, a pointer to v or a copy of the structure v, argv the address of x.
Call(v, x, argv, res, copied, state) ==
  /\ call = NoCall
  /\ Usable(v)
  /\ New(x) /\ New(argv) /\ New(res) /\ Cardinality({x, argv, res}) = 3
  /\ live' = live \cup {x, argv, res}
  /\ memory' = [o \in Objects |-> IF o \in {x, argv, res} THEN o ELSE memory[o]]
  /\ content' = [content EXCEPT ![x] = IF copied THEN content[memory[v]] ELSE memory[v],
                                ![argv] = x]
  /\ refs' = [refs EXCEPT ![x] = IF copied THEN {} ELSE {v}, ![argv] = {x}]
  /\ through' = [through EXCEPT ![x] = IF copied \/ v \in borrowed THEN Null ELSE x,
                                ![argv] = argv]
  /\ call' = [argv |-> argv, res |-> res, state |-> state]
  /\ UNCHANGED <<held, borrowed>>

FFICall(v, x, argv, res, copied) == Call(v, x, argv, res, copied, "running")

FFICallAsync(v, x, argv, res, copied) == Call(v, x, argv, res, copied, "queued")

\* A thread of the pool takes the request.
AsyncFFICall ==
  /\ call # NoCall /\ call.state = "queued"
  /\ call' = [call EXCEPT !.state = "running"]
  /\ UNCHANGED <<live, held, memory, content, refs, borrowed, through>>

\* The memory that C finds from the addresses it was called with.
Found ==
  {m \in Objects :
     \A found \in SUBSET Objects :
       /\ {content[call.argv], call.res} \cap Objects \subseteq found
       /\ \A n \in found : content[n] \in Objects => content[n] \in found
       => m \in found}

\* C stores a pointer, to memory it has found or to its own.
NativeStore ==
  /\ call # NoCall /\ call.state = "running"
  /\ \E m \in Found, to \in Found \cup {Native} :
       /\ content' = [content EXCEPT ![m] = to]
       /\ through' = [through EXCEPT ![m] = Null]
  /\ UNCHANGED <<live, held, memory, refs, call, borrowed>>

\* C has returned, and JavaScript has the result: FinishAsyncFFICall calls the
\* callback and deletes it.
Finish ==
  /\ call # NoCall /\ call.state = "running"
  /\ call' = NoCall
  /\ UNCHANGED <<live, held, memory, content, refs, borrowed, through>>

\* The result is a pointer.
FinishDeref(s) ==
  /\ call # NoCall /\ call.state = "running"
  /\ New(s) /\ content[call.res] \in Allocations \cup {Freed}
  /\ live' = live \cup {s} /\ held' = held \cup {s}
  /\ memory' = [memory EXCEPT ![s] = content[call.res]]
  /\ borrowed' = borrowed \cup {s}
  /\ call' = NoCall
  /\ UNCHANGED <<content, refs, through>>

-----------------------------------------------------------------------------

Ref ==
  \/ \E b \in Objects \ live : alloc(b)
  \/ \E b \in held :
       \/ Forget(b) \/ writeNull(b)
       \/ \E o \in held : writePointer(b, o) \/ SetStruct(b, o)
       \/ \E s \in Objects \ live : readPointer(b, s) \/ reinterpret(b, s)

ForeignCall ==
  \/ \E v \in held, x, argv, res \in Objects \ live, copied \in BOOLEAN :
       FFICall(v, x, argv, res, copied) \/ FFICallAsync(v, x, argv, res, copied)
  \/ AsyncFFICall \/ NativeStore \/ Finish
  \/ \E s \in Objects \ live : FinishDeref(s)

Next ==
  \/ Ref
  \/ \E garbage \in SUBSET live : Collect(garbage)
  \/ ForeignCall

Spec == Init /\ [][Next]_vars

-----------------------------------------------------------------------------
(***************************************************************************)
(* Properties                                                              *)
(***************************************************************************)

\* A Buffer that was not made of an address has its memory for as long as
\* anything can use it, however it was cut out of others.
ViewsKeepTheirMemory ==
  \A b \in live \ borrowed : memory[b] # Freed

\* "Attaches object to buffer such that it prevents object from being garbage
\* collected until buffer does": a stored pointer leads somewhere as long as
\* anything can use the Buffer that it was written through.
AttachedPointersLead ==
  \A m \in Objects : through[m] \in live => content[m] # Freed

\* C finds its arguments and a place for its result from the moment the call is
\* queued until its callback has run, whatever JavaScript does meanwhile.
CallFindsItsStorage ==
  call # NoCall =>
    /\ call.argv \in live /\ call.res \in live
    /\ content[call.argv] \in live
=============================================================================
