-------------------------- MODULE PthreadCondProofs --------------------------
(***************************************************************************)
(* Condition variables lose no waiter and wake nobody in vain, for any     *)
(* finite set of threads and any number of waits, signals and timeouts.    *)
(*                                                                         *)
(* All of it is counting: of the threads at certain places against the     *)
(* counters of the variable and of its semaphores.                         *)
(***************************************************************************)
EXTENDS PthreadCond, FiniteSetTheorems, TLAPS

\* Where a thread is counted as a waiter, and where it sleeps.
CountedAt == {"gate_post", "unlock", "queue", "queue_kernel", "queue_back", "cleanup"}
AsleepAt(s) ==
  IF s = "gate" THEN {"gate_kernel", "gate_back", "gone_kernel", "close_kernel", "destroy_kernel"}
  ELSE {"queue_kernel", "queue_back"}

\* Where it has the gate, and where it has mtxUnblockLock.
GateAt == {"count", "gate_post", "gone_adjust", "open", "mark", "destroy_try"}
ClosingAt == {"close", "close_kernel", "mark"}
UnblockAt == {"gone_gate", "gone_kernel", "gone_adjust"} \cup ClosingAt

Waiters == Cardinality(At(CountedAt))
Asleep(s) == Cardinality(At(AsleepAt(s)))
Gatekeepers == Cardinality(At(GateAt))
Leavers == Cardinality(At({"cleanup"}))

\* The tokens of a semaphore: its count, and what the kernel was given for
\* those asleep there.
Tokens(s) == kernel[s] + (IF value[s] > 0 THEN value[s] ELSE 0)

CountInv == Waiters = blocked - gone + toUnblock

\* A thread that was cancelled at the gate may have left a wakeup there.
Slept(s) ==
  LET waiting == Asleep(s) - kernel[s]
      due == IF value[s] < 0 THEN -value[s] ELSE 0
  IN  \/ waiting = due
      \/ s = "gate" /\ quits > 0 /\ waiting = due - 1

SleepInv == \A s \in Sems : Slept(s)

\* The one token of the gate is in the semaphore, with a thread, kept for the
\* signals on their way, gone with the variable, or lost with a thread that was
\* cancelled.
GateTokens ==
  Tokens("gate") + Gatekeepers + (IF toUnblock > 0 THEN 1 ELSE 0) + (IF destroyed THEN 1 ELSE 0)

GateInv == GateTokens <= 1 /\ (quits = 0 => GateTokens = 1)

LockInv ==
  \A t \in Threads :
    /\ pc[t] \in UnblockAt <=> unblockLock = t
    /\ pc[t] \in UnblockAt => toUnblock = 0
    /\ pc[t] \in ClosingAt => blocked > gone
    /\ pc[t] = "issue" <=> issue[t] > 0
    /\ pc[t] \in {"queue_back", "gate_back"} => quits > 0

Wakeups == Pending + Tokens("queue") + Leavers

WakeInv ==
  /\ toUnblock <= Wakeups
  /\ quits = 0 => toUnblock = Wakeups

\* Nobody comes in or signals while the variable is being destroyed.
DestroyInv ==
  /\ \A t, u \in Threads :
       pc[t] \in Destroying =>
         /\ pc[u] \notin Entering \cup Signalling
         /\ pc[u] \in Destroying => u = t
  /\ \A t \in Threads : pc[t] \in Destroying => ~destroyed
  /\ DestroyedIsQuiet

IInv == TypeOK /\ CountInv /\ SleepInv /\ GateInv /\ LockInv /\ WakeInv /\ DestroyInv

-----------------------------------------------------------------------------
(***************************************************************************)
(* Counting                                                                *)
(***************************************************************************)

\* By how much the number of threads at places in S changes with one step.
Change(S, from, to) == (IF to \in S THEN 1 ELSE 0) - (IF from \in S THEN 1 ELSE 0)

LEMMA AtIsFinite ==
  ASSUME NEW S
  PROVE  IsFiniteSet(At(S)) /\ Cardinality(At(S)) \in Nat
<1>1. At(S) \subseteq Threads
  BY DEF At
<1> QED
  BY <1>1, CondAssumption, FS_Subset, FS_CardinalityType

LEMMA Moved ==
  ASSUME TypeOK, NEW t \in Threads, NEW from, NEW to, GoTo(t, from, to), NEW S
  PROVE  Cardinality(At(S)') = Cardinality(At(S)) + Change(S, from, to)
<1>1. t \in At(S) <=> from \in S
  BY DEF At, GoTo
<1>2. IsFiniteSet(At(S)) /\ Cardinality(At(S)) \in Nat
  BY AtIsFinite
<1>3. CASE to \in S
  <2>1. At(S)' = At(S) \cup {t}
    BY <1>3 DEF At, GoTo, TypeOK
  <2> QED
    BY <1>1, <1>2, <1>3, <2>1, FS_AddElement DEF Change
<1>4. CASE to \notin S
  <2>1. At(S)' = At(S) \ {t}
    BY <1>4 DEF At, GoTo, TypeOK
  <2>2. Cardinality(At(S) \ {t}) = IF t \in At(S) THEN Cardinality(At(S)) - 1 ELSE Cardinality(At(S))
    BY <1>2, FS_RemoveElement
  <2>3. Change(S, from, to) = IF t \in At(S) THEN -1 ELSE 0
    BY <1>1, <1>4 DEF Change
  <2> QED
    BY <1>2, <2>1, <2>2, <2>3
<1> QED
  BY <1>3, <1>4

LEMMA CountsAreNumbers ==
  /\ Waiters \in Nat /\ Gatekeepers \in Nat /\ Leavers \in Nat
  /\ \A s \in Sems : Asleep(s) \in Nat
  BY AtIsFinite DEF Waiters, Gatekeepers, Leavers, Asleep

\* A step of a thread changes the counts by where it goes.
LEMMA Counts ==
  ASSUME TypeOK, NEW t \in Threads, NEW from, NEW to, GoTo(t, from, to)
  PROVE  /\ Waiters' = Waiters + Change(CountedAt, from, to)
         /\ \A s \in Sems : Asleep(s)' = Asleep(s) + Change(AsleepAt(s), from, to)
         /\ Gatekeepers' = Gatekeepers + Change(GateAt, from, to)
         /\ Leavers' = Leavers + Change({"cleanup"}, from, to)
<1>1. Waiters' = Waiters + Change(CountedAt, from, to)
  BY Moved DEF Waiters
<1>2. ASSUME NEW s \in Sems
      PROVE  Asleep(s)' = Asleep(s) + Change(AsleepAt(s), from, to)
  BY Moved DEF Asleep
<1>3. Gatekeepers' = Gatekeepers + Change(GateAt, from, to)
  BY Moved DEF Gatekeepers
<1>4. Leavers' = Leavers + Change({"cleanup"}, from, to)
  BY Moved DEF Leavers
<1> QED
  BY <1>1, <1>2, <1>3, <1>4

\* Signals that one thread has still to issue are apart from those of others.
LEMMA PendingChanges ==
  ASSUME TypeOK, NEW t \in Threads
  PROVE  /\ Pending \in Nat
         /\ \A n \in Nat : issue' = [issue EXCEPT ![t] = n] => Pending' = Pending - issue[t] + n
<1> DEFINE Mine(k) == {t} \X (1 .. k)
           Theirs == UNION {{u} \X (1 .. issue[u]) : u \in Threads \ {t}}
<1>1. ASSUME NEW k \in Nat, NEW u
      PROVE  IsFiniteSet({u} \X (1 .. k)) /\ Cardinality({u} \X (1 .. k)) = k
  <2>1. IsFiniteSet({u}) /\ Cardinality({u}) = 1
    BY FS_Singleton
  <2>2. IsFiniteSet(1 .. k) /\ Cardinality(1 .. k) = k
    BY FS_Interval
  <2>3. IsFiniteSet({u} \X (1 .. k)) /\ Cardinality({u} \X (1 .. k)) = 1 * k
    <3> DEFINE S == {u}  T == 1 .. k
    <3>1. /\ IsFiniteSet(S) /\ IsFiniteSet(T)
          /\ Cardinality(S) = 1 /\ Cardinality(T) = k
      BY <2>1, <2>2
    <3> HIDE DEF S, T
    <3>2. IsFiniteSet(S \X T) /\ Cardinality(S \X T) = Cardinality(S) * Cardinality(T)
      BY <3>1, FS_Product, Zenon
    <3> QED
      BY <3>1, <3>2 DEF S, T
  <2> QED
    BY <2>3
<1>2. IsFiniteSet(Theirs)
  <2>1. IsFiniteSet(Threads \ {t})
    BY CondAssumption, FS_RemoveElement
  <2>2. IsFiniteSet({{u} \X (1 .. issue[u]) : u \in Threads \ {t}})
    <3> DEFINE S == Threads \ {t}
               T == {{u} \X (1 .. issue[u]) : u \in S}
               f == [u \in S |-> {u} \X (1 .. issue[u])]
    <3>1. f \in [S -> T] /\ \A y \in T : \E u \in S : f[u] = y
      OBVIOUS
    <3>2. f \in Surjection(S, T)
      BY <3>1, Zenon DEF Surjection
    <3>3. IsFiniteSet(S)
      BY <2>1
    <3> HIDE DEF S, T, f
    <3>4. IsFiniteSet(T)
      BY <3>2, <3>3, FS_Surjection, Zenon
    <3> QED
      BY <3>4 DEF S, T
  <2>3. \A T \in {{u} \X (1 .. issue[u]) : u \in Threads \ {t}} : IsFiniteSet(T)
    <3> SUFFICES ASSUME NEW u \in Threads \ {t} PROVE IsFiniteSet({u} \X (1 .. issue[u]))
      OBVIOUS
    <3>1. issue[u] \in Nat
      BY DEF TypeOK
    <3> QED
      BY <1>1, <3>1, Zenon
  <2> DEFINE S == {{u} \X (1 .. issue[u]) : u \in Threads \ {t}}
  <2>4. IsFiniteSet(S) /\ \A T \in S : IsFiniteSet(T)
    BY <2>2, <2>3
  <2> HIDE DEF S
  <2>5. IsFiniteSet(UNION S)
    BY <2>4, FS_UNION, Zenon
  <2> QED
    BY <2>5 DEF S
<1>3. ASSUME NEW k \in Nat
      PROVE  Cardinality(Theirs \cup Mine(k)) = Cardinality(Theirs) + k
  <2>1. Theirs \cap Mine(k) = {}
    OBVIOUS
  <2>2. Cardinality({}) = 0 /\ Cardinality(Theirs) \in Nat
    BY <1>2, FS_EmptySet, FS_CardinalityType
  <2>3. IsFiniteSet(Mine(k)) /\ Cardinality(Mine(k)) = k
    BY <1>1
  <2> HIDE DEF Mine, Theirs
  <2>4. Cardinality(Theirs \cup Mine(k))
          = Cardinality(Theirs) + Cardinality(Mine(k)) - Cardinality(Theirs \cap Mine(k))
    BY <1>2, <2>3, FS_Union
  <2>5. Cardinality(Theirs \cap Mine(k)) = 0
    BY <2>1, <2>2, Zenon
  <2> QED
    BY <2>2, <2>3, <2>4, <2>5
<1>4. Pending = Cardinality(Theirs \cup Mine(issue[t]))
  <2>1. UNION {{u} \X (1 .. issue[u]) : u \in Threads} = Theirs \cup Mine(issue[t])
    OBVIOUS
  <2> QED
    BY <2>1 DEF Pending
<1>5. ASSUME NEW n \in Nat, issue' = [issue EXCEPT ![t] = n]
      PROVE  Pending' = Cardinality(Theirs \cup Mine(n))
  <2>1. \A u \in Threads : issue'[u] = IF u = t THEN n ELSE issue[u]
    BY <1>5 DEF TypeOK
  <2>2. UNION {{u} \X (1 .. issue'[u]) : u \in Threads} = Theirs \cup Mine(n)
    BY <2>1
  <2> QED
    BY <2>2 DEF Pending
<1>6. Cardinality(Theirs) \in Nat
  BY <1>2, FS_CardinalityType
<1>7. issue[t] \in Nat
  BY DEF TypeOK
<1> HIDE DEF Mine, Theirs
<1>8. Pending = Cardinality(Theirs) + issue[t]
  BY <1>3, <1>4, <1>7
<1>9. ASSUME NEW n \in Nat, issue' = [issue EXCEPT ![t] = n]
      PROVE  Pending' = Pending - issue[t] + n
  <2>1. Pending' = Cardinality(Theirs) + n
    BY <1>3, <1>5, <1>9
  <2> QED
    BY <1>6, <1>7, <1>8, <2>1
<1> QED
  BY <1>6, <1>7, <1>8, <1>9

-----------------------------------------------------------------------------
(***************************************************************************)
(* The semaphores                                                          *)
(***************************************************************************)

LEMMA DownKeeps ==
  ASSUME TypeOK, SleepInv, NEW t \in Threads, NEW s \in Sems, NEW from, NEW got, NEW sleep,
         Down(t, s, from, got, sleep),
         \A r \in Sems : from \notin AsleepAt(r) /\ got \notin AsleepAt(r),
         \A r \in Sems : sleep \in AsleepAt(r) <=> r = s, quits' = quits
  PROVE  /\ SleepInv'
         /\ Tokens(s)' = Tokens(s) - (IF value[s] > 0 THEN 1 ELSE 0)
         /\ \A r \in Sems : r # s => Tokens(r)' = Tokens(r)
<1>1. \A r \in Sems : Asleep(r)' = Asleep(r) + (IF r = s /\ value[s] <= 0 THEN 1 ELSE 0)
  BY Counts, CountsAreNumbers DEF Down, Change, TypeOK
<1>2. SleepInv'
  <2> SUFFICES ASSUME NEW r \in Sems PROVE Slept(r)'
    BY DEF SleepInv
  <2>1. /\ value[r] \in Int /\ kernel[r] \in Nat /\ kernel[r]' = kernel[r]
        /\ value[r]' = IF r = s THEN value[r] - 1 ELSE value[r]
    BY DEF Down, TypeOK
  <2>2. /\ Asleep(r) \in Nat
        /\ Asleep(r)' = Asleep(r) + (IF r = s /\ value[s] <= 0 THEN 1 ELSE 0)
    BY <1>1, CountsAreNumbers
  <2>3. Slept(r)
    BY DEF SleepInv
  <2>4. CASE r = s
    BY <2>1, <2>2, <2>3, <2>4 DEF Slept
  <2>5. CASE r # s
    BY <2>1, <2>2, <2>3, <2>5 DEF Slept
  <2> QED
    BY <2>4, <2>5
<1> QED
  BY <1>2 DEF Tokens, Down, TypeOK

LEMMA TakeKeeps ==
  ASSUME TypeOK, SleepInv, NEW t \in Threads, NEW s \in Sems, NEW from, NEW got,
         Take(t, s, from, got),
         \A r \in Sems : from \in AsleepAt(r) <=> r = s,
         \A r \in Sems : got \notin AsleepAt(r), quits' = quits
  PROVE  /\ SleepInv'
         /\ Tokens(s)' = Tokens(s) - 1
         /\ \A r \in Sems : r # s => Tokens(r)' = Tokens(r)
<1>1. \A r \in Sems : Asleep(r)' = Asleep(r) - (IF r = s THEN 1 ELSE 0)
  BY Counts, CountsAreNumbers DEF Take, Change
<1>2. SleepInv'
  BY <1>1, CountsAreNumbers DEF SleepInv, Slept, Take, TypeOK
<1> QED
  BY <1>2 DEF Tokens, Take, TypeOK

LEMMA UpKeeps ==
  ASSUME TypeOK, SleepInv, NEW s \in Sems, NEW n \in Nat, Up(s, n),
         \A r \in Sems : Asleep(r)' = Asleep(r), quits' = quits
  PROVE  /\ SleepInv'
         /\ Tokens(s)' = Tokens(s) + n
         /\ \A r \in Sems : r # s => Tokens(r)' = Tokens(r)
<1>1. SleepInv'
  BY CountsAreNumbers DEF SleepInv, Slept, Up, Released, TypeOK
<1> QED
  BY <1>1 DEF Tokens, Up, Released, TypeOK

CountsInv == CountInv /\ SleepInv /\ GateInv /\ WakeInv

-----------------------------------------------------------------------------
(***************************************************************************)
(* What each step does to the counts                                       *)
(***************************************************************************)

\* What a step of a call leaves alone that only passes the gate.
AtGateOnly == UNCHANGED <<counters, issue, destroyed, quits>>

LEMMA SomebodyThere ==
  ASSUME NEW S, NEW t \in Threads, pc[t] \in S
  PROVE  Cardinality(At(S)) >= 1
<1>1. At(S) # {}
  BY DEF At
<1> QED
  BY <1>1, AtIsFinite, FS_EmptySet

LEMMA WakeupsAreNumbers ==
  ASSUME TypeOK
  PROVE  Pending \in Nat /\ \A s \in Sems : Tokens(s) \in Nat
<1>1. Pending \in Nat
  <2>1. CASE Threads = {}
    <3>1. UNION {{t} \X (1 .. issue[t]) : t \in Threads} = {}
      BY <2>1
    <3> QED
      BY <3>1, FS_EmptySet DEF Pending
  <2>2. CASE Threads # {}
    BY <2>2, PendingChanges
  <2> QED
    BY <2>1, <2>2
<1>2. \A s \in Sems : Tokens(s) \in Nat
  BY DEF TypeOK, Tokens
<1> QED
  BY <1>1, <1>2

LEMMA MoveCounts ==
  ASSUME IInv, NEW t \in Threads, NEW from, NEW to, GoTo(t, from, to),
         UNCHANGED <<semVars, counters, issue, destroyed, quits>>,
         from \in CountedAt <=> to \in CountedAt,
         \A s \in Sems : from \in AsleepAt(s) <=> to \in AsleepAt(s),
         from \in GateAt <=> to \in GateAt,
         from = "cleanup" <=> to = "cleanup"
  PROVE  CountsInv'
<1>1. /\ Waiters' = Waiters /\ Gatekeepers' = Gatekeepers /\ Leavers' = Leavers
      /\ \A s \in Sems : Asleep(s)' = Asleep(s)
  BY Counts, CountsAreNumbers DEF IInv, Change
<1>2. UNCHANGED <<Pending, Tokens("gate"), Tokens("queue")>>
  BY DEF semVars, Pending, Tokens
<1> QED
  BY <1>1, <1>2 DEF IInv, CountsInv, CountInv, SleepInv, Slept, GateInv, GateTokens, WakeInv, Wakeups, semVars, counters

LEMMA GateDownCounts ==
  ASSUME IInv, NEW t \in Threads, NEW from, NEW got, NEW sleep,
         Down(t, "gate", from, got, sleep), AtGateOnly,
         {from, got, sleep} \cap CountedAt = {},
         \A s \in Sems : {from, got} \cap AsleepAt(s) = {},
         \A s \in Sems : sleep \in AsleepAt(s) <=> s = "gate",
         from \notin GateAt, got \in GateAt, sleep \notin GateAt
  PROVE  CountsInv'
<1>1. "cleanup" \notin {from, got, sleep}
  BY DEF CountedAt
<1>2. Waiters' = Waiters /\ Leavers' = Leavers /\ Pending' = Pending
  BY <1>1, Counts, CountsAreNumbers DEF IInv, Down, Change, AtGateOnly, Pending
<1>3. /\ SleepInv' /\ Tokens("gate")' = Tokens("gate") - (IF value["gate"] > 0 THEN 1 ELSE 0)
      /\ Tokens("queue")' = Tokens("queue")
  BY DownKeeps DEF IInv, Sems, AtGateOnly
<1>4. Gatekeepers' = Gatekeepers + (IF value["gate"] > 0 THEN 1 ELSE 0)
  BY Counts, CountsAreNumbers DEF IInv, Down, Change
<1> QED
  BY <1>2, <1>3, <1>4, CountsAreNumbers
  DEF IInv, TypeOK, AtGateOnly, CountsInv, CountInv, GateInv, GateTokens, WakeInv, Wakeups, Tokens, Sems, counters

LEMMA GateTakeCounts ==
  ASSUME IInv, NEW t \in Threads, NEW from, NEW got,
         Take(t, "gate", from, got), AtGateOnly,
         {from, got} \cap CountedAt = {},
         \A s \in Sems : from \in AsleepAt(s) <=> s = "gate",
         \A s \in Sems : got \notin AsleepAt(s),
         from \notin GateAt, got \in GateAt
  PROVE  CountsInv'
<1>1. "cleanup" \notin {from, got}
  BY DEF CountedAt
<1>2. Waiters' = Waiters /\ Leavers' = Leavers /\ Pending' = Pending
  BY <1>1, Counts, CountsAreNumbers DEF IInv, Take, Change, AtGateOnly, Pending
<1>3. SleepInv' /\ Tokens("gate")' = Tokens("gate") - 1 /\ Tokens("queue")' = Tokens("queue")
  BY TakeKeeps DEF IInv, Sems, AtGateOnly
<1>4. Gatekeepers' = Gatekeepers + 1
  BY Counts, CountsAreNumbers DEF IInv, Take, Change
<1> QED
  BY <1>2, <1>3, <1>4, CountsAreNumbers
  DEF IInv, TypeOK, AtGateOnly, CountsInv, CountInv, GateInv, GateTokens, WakeInv, Wakeups, Tokens, Sems, counters

\* Opens the gate; the waiters may be counted anew.
LEMMA GateUpCounts ==
  ASSUME IInv, NEW t \in Threads, NEW from, NEW to, GoTo(t, from, to), Up("gate", 1),
         UNCHANGED <<toUnblock, issue, destroyed, quits>>, (blocked - gone)' = blocked - gone,
         from \in CountedAt <=> to \in CountedAt, "cleanup" \notin {from, to},
         \A s \in Sems : {from, to} \cap AsleepAt(s) = {},
         from \in GateAt, to \notin GateAt
  PROVE  CountsInv'
<1>1. /\ Waiters' = Waiters /\ Leavers' = Leavers /\ Gatekeepers' = Gatekeepers - 1
      /\ \A s \in Sems : Asleep(s)' = Asleep(s)
  BY Counts, CountsAreNumbers DEF IInv, Change
<1>2. Pending' = Pending
  BY DEF Pending
<1>3. SleepInv' /\ Tokens("gate")' = Tokens("gate") + 1 /\ Tokens("queue")' = Tokens("queue")
  BY <1>1, UpKeeps DEF IInv, Sems
<1> QED
  BY <1>1, <1>2, <1>3, CountsAreNumbers
  DEF IInv, TypeOK, CountsInv, CountInv, GateInv, GateTokens, WakeInv, Wakeups, Tokens, Sems

LEMMA CountCounts ==
  ASSUME IInv, NEW t \in Threads, Count(t)
  PROVE  CountsInv'
<1>1. /\ Waiters' = Waiters + 1 /\ Gatekeepers' = Gatekeepers /\ Leavers' = Leavers
      /\ \A s \in Sems : Asleep(s)' = Asleep(s)
  BY Counts, CountsAreNumbers DEF IInv, Count, Change, CountedAt, GateAt, AsleepAt
<1>2. UNCHANGED <<Pending, Tokens("gate"), Tokens("queue")>>
  BY DEF Count, Fixed, semVars, Pending, Tokens
<1> QED
  BY <1>1, <1>2, CountsAreNumbers
  DEF IInv, TypeOK, Count, Fixed, CountsInv, CountInv, SleepInv, Slept, GateInv, GateTokens, WakeInv, Wakeups, semVars

LEMMA QueueCounts ==
  ASSUME IInv, NEW t \in Threads, Queue(t)
  PROVE  CountsInv'
<1>1. /\ Waiters' = Waiters /\ Gatekeepers' = Gatekeepers /\ Pending' = Pending
  BY Counts, CountsAreNumbers DEF IInv, Queue, Down, Take, Change, CountedAt, GateAt, Pending
<1>2. CASE Down(t, "queue", "queue", "cleanup", "queue_kernel")
  <2>1. /\ SleepInv' /\ Tokens("queue")' = Tokens("queue") - (IF value["queue"] > 0 THEN 1 ELSE 0)
        /\ Tokens("gate")' = Tokens("gate")
    BY <1>2, DownKeeps DEF IInv, Sems, AsleepAt, Queue
  <2>2. Leavers' = Leavers + (IF value["queue"] > 0 THEN 1 ELSE 0)
    BY <1>2, Counts, CountsAreNumbers DEF IInv, Down, Change
  <2> QED
    BY <1>1, <2>1, <2>2, CountsAreNumbers, WakeupsAreNumbers
    DEF IInv, TypeOK, Queue, Fixed, CountsInv, CountInv, GateInv, GateTokens, WakeInv, Wakeups, Tokens, Sems, counters
<1>3. CASE Take(t, "queue", "queue_kernel", "cleanup")
  <2>1. SleepInv' /\ Tokens("queue")' = Tokens("queue") - 1 /\ Tokens("gate")' = Tokens("gate")
    BY <1>3, TakeKeeps DEF IInv, Sems, AsleepAt, Queue
  <2>2. Leavers' = Leavers + 1
    BY <1>3, Counts, CountsAreNumbers DEF IInv, Take, Change
  <2> QED
    BY <1>1, <2>1, <2>2, CountsAreNumbers, WakeupsAreNumbers
    DEF IInv, TypeOK, Queue, Fixed, CountsInv, CountInv, GateInv, GateTokens, WakeInv, Wakeups, Tokens, Sems, counters
<1> QED
  BY <1>2, <1>3 DEF Queue

LEMMA GiveUpCounts ==
  ASSUME IInv, NEW t \in Threads, GiveUp(t)
  PROVE  CountsInv'
<1>1. PICK to \in {"cleanup", "queue_back"} :
        GoTo(t, IF to = "cleanup" THEN "queue" ELSE "queue_kernel", to)
  BY DEF GiveUp
<1>2. /\ Waiters' = Waiters /\ Gatekeepers' = Gatekeepers /\ Leavers' >= Leavers
      /\ \A s \in Sems : Asleep(s)' = Asleep(s)
  BY <1>1, Counts, CountsAreNumbers DEF IInv, Change, CountedAt, GateAt, AsleepAt
<1>3. UNCHANGED <<Pending, Tokens("gate"), Tokens("queue")>>
  BY DEF GiveUp, semVars, Pending, Tokens
<1>4. Leavers' \in Int
  BY <1>1, Counts, CountsAreNumbers DEF IInv, Change
<1>5. quits' # 0
  BY DEF GiveUp, IInv, TypeOK
<1>6. WakeInv'
  <2>1. Pending \in Nat /\ Tokens("queue") \in Nat
    BY WakeupsAreNumbers DEF IInv, Sems
  <2> QED
    BY <1>2, <1>3, <1>4, <1>5, <2>1, CountsAreNumbers DEF IInv, TypeOK, GiveUp, counters, WakeInv, Wakeups
<1>7. SleepInv'
  BY <1>2, <1>5 DEF IInv, TypeOK, GiveUp, SleepInv, Slept, semVars
<1>8. CountInv' /\ GateInv'
  BY <1>2, <1>3, <1>5 DEF IInv, GiveUp, Fixed, CountInv, GateInv, GateTokens, counters
<1> QED
  BY <1>6, <1>7, <1>8 DEF CountsInv

LEMMA CancelCounts ==
  ASSUME IInv, NEW t \in Threads, CancelAtGate(t)
  PROVE  CountsInv'
<1>1. PICK to \in {"idle", "gate_back"} :
        GoTo(t, IF to = "idle" THEN "gate" ELSE "gate_kernel", to)
  BY DEF CancelAtGate
<1>2. /\ Waiters' = Waiters /\ Gatekeepers' = Gatekeepers /\ Leavers' = Leavers
      /\ \A s \in Sems : Asleep(s)' = Asleep(s)
  BY <1>1, Counts, CountsAreNumbers DEF IInv, Change, CountedAt, GateAt, AsleepAt
<1>3. UNCHANGED <<Pending, Tokens("gate"), Tokens("queue")>>
  BY DEF CancelAtGate, semVars, Pending, Tokens
<1>4. quits' > 0
  BY DEF CancelAtGate, IInv, TypeOK
<1> QED
  BY <1>2, <1>3, <1>4
  DEF IInv, CancelAtGate, Fixed, CountsInv, CountInv, SleepInv, Slept, GateInv, GateTokens, WakeInv, Wakeups,
      semVars, counters

\* At a count of 0 there is a wakeup for the thread that leaves, and it stays.
LEMMA GateBackCounts ==
  ASSUME IInv, NEW t \in Threads, GateBack(t)
  PROVE  CountsInv'
<1>1. GoTo(t, "gate_back", "idle") /\ UNCHANGED <<counters, issue, destroyed, quits>>
  BY DEF GateBack, Fixed
<1>2. quits > 0
  BY <1>1 DEF IInv, LockInv, GoTo
<1>3. /\ Waiters' = Waiters /\ Gatekeepers' = Gatekeepers /\ Leavers' = Leavers /\ Pending' = Pending
      /\ \A s \in Sems : Asleep(s)' = Asleep(s) - (IF s = "gate" THEN 1 ELSE 0)
  BY <1>1, Counts, CountsAreNumbers DEF IInv, Change, CountedAt, GateAt, AsleepAt, Pending, Sems
<1>4. /\ Asleep("gate") \in Nat \ {0} /\ Asleep("queue") \in Nat
      /\ value["gate"] \in Int /\ kernel["gate"] \in Nat
  <2>1. Asleep("gate") >= 1
    BY <1>1, SomebodyThere DEF Asleep, AsleepAt, GoTo
  <2> QED
    BY <2>1, CountsAreNumbers DEF IInv, TypeOK, Sems
<1>5. Tokens("gate") \in 0 .. 1
  BY WakeupsAreNumbers, CountsAreNumbers DEF IInv, GateInv, GateTokens, Sems
<1>6. /\ kernel'["queue"] = kernel["queue"] /\ value'["queue"] = value["queue"]
      /\ \/ value["gate"] = 0 /\ value'["gate"] = 0 /\ kernel'["gate"] = kernel["gate"]
         \/ /\ value["gate"] # 0 /\ kernel["gate"] > 0
            /\ value'["gate"] = value["gate"] /\ kernel'["gate"] = kernel["gate"] - 1
         \/ /\ value["gate"] # 0 /\ kernel["gate"] = 0
            /\ value'["gate"] = value["gate"] + 1 /\ kernel'["gate"] = 0
  BY DEF GateBack, IInv, TypeOK, Sems, semVars
<1>7. /\ value["gate"] <= 0
      /\ value["gate"] = 0 => kernel["gate"] = 1 /\ Asleep("gate") = 1
  BY <1>4, <1>5 DEF IInv, SleepInv, Slept, Sems, Tokens
<1>8. SleepInv'
  <2>1. /\ Asleep("gate") - kernel["gate"] = -value["gate"]
           \/ Asleep("gate") - kernel["gate"] = -value["gate"] - 1
        /\ Asleep("queue") - kernel["queue"] = IF value["queue"] < 0 THEN -value["queue"] ELSE 0
    BY <1>4, <1>7 DEF IInv, SleepInv, Slept, Sems
  <2> QED
    <3>1. Slept("gate")'
      BY <1>1, <1>2, <1>3, <1>4, <1>6, <1>7, <2>1 DEF Slept, Sems
    <3>2. Slept("queue")'
      BY <1>3, <1>4, <1>6, <2>1 DEF Slept, Sems
    <3> QED
      BY <3>1, <3>2 DEF SleepInv, Sems
<1>9. Tokens("gate")' \in Nat /\ Tokens("gate")' <= Tokens("gate") /\ Tokens("queue")' = Tokens("queue")
  <2>1. Tokens("gate") = kernel["gate"]
    BY <1>4, <1>7 DEF Tokens
  <2>2. Tokens("gate")' = kernel'["gate"] /\ kernel'["gate"] \in Nat /\ kernel'["gate"] <= kernel["gate"]
    <3>1. value'["gate"] <= 0
      BY <1>4, <1>6, <1>7
    <3> QED
      BY <1>4, <1>6, <3>1 DEF Tokens
  <2>3. Tokens("queue")' = Tokens("queue")
    BY <1>6 DEF Tokens
  <2> QED
    BY <2>1, <2>2, <2>3
<1> QED
  BY <1>1, <1>2, <1>3, <1>5, <1>8, <1>9, CountsAreNumbers
  DEF IInv, TypeOK, CountsInv, CountInv, GateInv, GateTokens, WakeInv, Wakeups, counters

LEMMA QueueBackCounts ==
  ASSUME IInv, NEW t \in Threads, QueueBack(t)
  PROVE  CountsInv'
<1>1. Waiters' = Waiters /\ Gatekeepers' = Gatekeepers /\ Leavers' = Leavers + 1 /\ Pending' = Pending
  BY Counts, CountsAreNumbers DEF IInv, QueueBack, Take, Change, CountedAt, GateAt, Pending
<1>2. CASE Take(t, "queue", "queue_back", "cleanup")
  <2>1. SleepInv' /\ Tokens("queue")' = Tokens("queue") - 1 /\ Tokens("gate")' = Tokens("gate")
    BY <1>2, TakeKeeps DEF IInv, Sems, AsleepAt, QueueBack
  <2> QED
    BY <1>1, <2>1, CountsAreNumbers, WakeupsAreNumbers
    DEF IInv, TypeOK, QueueBack, Fixed, CountsInv, CountInv, GateInv, GateTokens, WakeInv, Wakeups, Sems, counters
<1>3. CASE /\ kernel["queue"] <= 0 /\ GoTo(t, "queue_back", "cleanup") /\ UNCHANGED kernel
           /\ value' = [value EXCEPT !["queue"] = @ + 1]
  <2>1. \A s \in Sems : Asleep(s)' = Asleep(s) - (IF s = "queue" THEN 1 ELSE 0)
    BY <1>3, Counts, CountsAreNumbers DEF IInv, Change, AsleepAt, Sems
  <2>2. value["queue"] < 0
    <3>1. Asleep("queue") >= 1
      BY <1>3, SomebodyThere DEF Asleep, AsleepAt, GoTo
    <3> QED
      BY <1>3, <3>1, CountsAreNumbers DEF IInv, TypeOK, SleepInv, Slept, Sems
  <2>3. Tokens("queue")' = Tokens("queue") /\ Tokens("gate")' = Tokens("gate")
    BY <1>3, <2>2 DEF Tokens, IInv, TypeOK, Sems
  <2>4. SleepInv'
    <3>1. /\ value'["gate"] = value["gate"] /\ value'["queue"] = value["queue"] + 1
          /\ kernel' = kernel /\ quits' = quits /\ value["queue"] \in Int
      BY <1>3 DEF IInv, TypeOK, QueueBack, Sems
    <3> QED
      BY <2>1, <2>2, <3>1, CountsAreNumbers DEF IInv, TypeOK, SleepInv, Slept, Sems
  <2>5. quits > 0
    BY <1>3 DEF IInv, LockInv, TypeOK, GoTo
  <2> QED
    BY <1>1, <1>3, <2>3, <2>4, <2>5, CountsAreNumbers, WakeupsAreNumbers
    DEF IInv, TypeOK, QueueBack, Fixed, CountsInv, CountInv, GateInv, GateTokens, WakeInv, Wakeups, Sems, counters
<1> QED
  BY <1>2, <1>3 DEF QueueBack, IInv, TypeOK, Sems

LEMMA CleanupCounts ==
  ASSUME IInv, NEW t \in Threads, Cleanup(t)
  PROVE  CountsInv'
<1>1. pc[t] = "cleanup"
  BY DEF Cleanup, GoTo
<1>2. PICK to \in {"open", "relock", "gone_gate"} :
        GoTo(t, "cleanup", to) /\ (to = "open" <=> toUnblock = 1)
  BY DEF Cleanup, LastSignal, IInv, TypeOK
<1>3. /\ Waiters' = Waiters - 1 /\ Leavers' = Leavers - 1
      /\ Gatekeepers' = Gatekeepers + (IF toUnblock = 1 THEN 1 ELSE 0)
      /\ \A s \in Sems : Asleep(s)' = Asleep(s)
  BY <1>2, Counts, CountsAreNumbers DEF IInv, Change, CountedAt, GateAt, AsleepAt
<1>4. UNCHANGED <<Pending, Tokens("gate"), Tokens("queue")>>
  BY DEF Cleanup, semVars, Pending, Tokens
<1>5. Leavers > 0
  BY <1>1, SomebodyThere, CountsAreNumbers DEF Leavers
<1>6. blocked' = blocked /\ UNCHANGED <<quits, destroyed, semVars>>
  BY DEF Cleanup, Fixed
<1>7. CASE toUnblock # 0
  <2>1. toUnblock' = toUnblock - 1 /\ gone' = gone
    BY <1>7 DEF Cleanup
  <2> QED
    BY <1>3, <1>4, <1>5, <1>6, <1>7, <2>1, CountsAreNumbers, WakeupsAreNumbers
    DEF IInv, TypeOK, CountsInv, CountInv, SleepInv, Slept, GateInv, GateTokens, WakeInv, Wakeups, semVars, Sems
<1>8. CASE toUnblock = 0
  <2>1. toUnblock' = toUnblock /\ gone' = gone + 1
    BY <1>8 DEF Cleanup
  <2> QED
    BY <1>3, <1>4, <1>5, <1>6, <1>8, <2>1, CountsAreNumbers, WakeupsAreNumbers
    DEF IInv, TypeOK, CountsInv, CountInv, SleepInv, Slept, GateInv, GateTokens, WakeInv, Wakeups, semVars, Sems
<1> QED
  BY <1>7, <1>8

\* n signals more are on their way; the gate stays or is now closed.
LEMMA SignalsCount ==
  ASSUME IInv, NEW t \in Threads, NEW from \in {"unblock", "mark"}, NEW n \in Nat \ {0},
         GoTo(t, from, "issue"), toUnblock > 0 <=> from = "unblock",
         issue' = [issue EXCEPT ![t] = n], toUnblock' = toUnblock + n,
         (blocked - gone)' = blocked - gone - n,
         UNCHANGED <<semVars, destroyed, quits>>
  PROVE  CountsInv'
<1>1. /\ Waiters' = Waiters /\ Leavers' = Leavers
      /\ Gatekeepers' = Gatekeepers - (IF from = "mark" THEN 1 ELSE 0)
      /\ \A s \in Sems : Asleep(s)' = Asleep(s)
  BY Counts, CountsAreNumbers DEF IInv, Change, CountedAt, GateAt, AsleepAt
<1>2. UNCHANGED <<Tokens("gate"), Tokens("queue")>>
  BY DEF semVars, Tokens
<1>3. issue[t] = 0
  BY DEF IInv, TypeOK, LockInv, GoTo
<1>4. Pending' = Pending + n
  <2>1. n \in Nat
    OBVIOUS
  <2>2. Pending' = Pending - issue[t] + n
    BY <2>1, PendingChanges DEF IInv
  <2> QED
    BY <1>3, <2>2, WakeupsAreNumbers DEF IInv
<1>5. CountInv' /\ SleepInv' /\ GateInv'
  BY <1>1, <1>2, CountsAreNumbers, WakeupsAreNumbers
  DEF IInv, TypeOK, CountInv, SleepInv, Slept, GateInv, GateTokens, semVars, Sems
<1>6. WakeInv'
  BY <1>1, <1>2, <1>4, CountsAreNumbers, WakeupsAreNumbers DEF IInv, TypeOK, WakeInv, Wakeups, Sems
<1> QED
  BY <1>5, <1>6 DEF CountsInv

LEMMA IssueCounts ==
  ASSUME IInv, NEW t \in Threads, Issue(t)
  PROVE  CountsInv'
<1>1. /\ Waiters' = Waiters /\ Leavers' = Leavers /\ Gatekeepers' = Gatekeepers
      /\ \A s \in Sems : Asleep(s)' = Asleep(s)
  BY Counts, CountsAreNumbers DEF IInv, Issue, Change, CountedAt, GateAt, AsleepAt
<1>2. Pending' = Pending - issue[t]
  <2>1. issue' = [issue EXCEPT ![t] = 0] /\ 0 \in Nat /\ issue[t] \in Nat
    BY DEF Issue, IInv, TypeOK
  <2>2. Pending' = Pending - issue[t] + 0
    BY <2>1, PendingChanges DEF IInv
  <2> QED
    BY <2>1, <2>2, WakeupsAreNumbers DEF IInv
<1>3. /\ SleepInv' /\ Tokens("queue")' = Tokens("queue") + issue[t]
      /\ Tokens("gate")' = Tokens("gate")
  BY <1>1, UpKeeps DEF Issue, IInv, TypeOK, Sems
<1> QED
  BY <1>1, <1>2, <1>3, CountsAreNumbers, WakeupsAreNumbers
  DEF IInv, TypeOK, Issue, Fixed, CountsInv, CountInv, GateInv, GateTokens, WakeInv, Wakeups, Sems, counters

LEMMA DestroyTryCounts ==
  ASSUME IInv, NEW t \in Threads, DestroyTry(t)
  PROVE  CountsInv'
<1>1. CASE Up("gate", 1) /\ UNCHANGED destroyed
  BY <1>1, GateUpCounts DEF DestroyTry, counters, bounds, CountedAt, AsleepAt, GateAt
<1>2. CASE destroyed' = TRUE /\ UNCHANGED semVars
  <2>1. /\ Waiters' = Waiters /\ Leavers' = Leavers /\ Gatekeepers' = Gatekeepers - 1
        /\ \A s \in Sems : Asleep(s)' = Asleep(s)
    BY Counts, CountsAreNumbers DEF IInv, DestroyTry, Change, CountedAt, GateAt, AsleepAt
  <2>2. UNCHANGED <<Pending, Tokens("gate"), Tokens("queue")>>
    BY <1>2 DEF DestroyTry, semVars, Pending, Tokens
  <2>3. ~destroyed
    BY DEF IInv, DestroyInv, DestroyTry, GoTo, Destroying
  <2> QED
    BY <1>2, <2>1, <2>2, <2>3, CountsAreNumbers, WakeupsAreNumbers
    DEF IInv, TypeOK, DestroyTry, CountsInv, CountInv, SleepInv, Slept, GateInv, GateTokens, WakeInv, Wakeups, semVars,
        counters, bounds, Sems
<1> QED
  BY <1>1, <1>2 DEF DestroyTry

-----------------------------------------------------------------------------
(***************************************************************************)
(* The invariant is kept                                                   *)
(***************************************************************************)

LEMMA InitIInv == Init => IInv
<1> SUFFICES ASSUME Init PROVE IInv
  OBVIOUS
<1>1. TypeOK
  <2>1. value \in [Sems -> Int] /\ kernel \in [Sems -> Nat]
    BY DEF Init, Sems
  <2>2. pc \in [Threads -> {"idle"}] /\ everybody \in [Threads -> BOOLEAN] /\ issue \in [Threads -> Nat]
    BY DEF Init
  <2> QED
    BY <2>1, <2>2 DEF Init, TypeOK
<1>2. \A S : "idle" \notin S => Cardinality(At(S)) = 0
  <2>1. \A S : "idle" \notin S => At(S) = {}
    BY DEF Init, At
  <2> QED
    BY <2>1, FS_EmptySet
<1>3. Waiters = 0 /\ Gatekeepers = 0 /\ Leavers = 0 /\ \A s \in Sems : Asleep(s) = 0
  BY <1>2 DEF Waiters, Gatekeepers, Leavers, Asleep, CountedAt, GateAt, AsleepAt
<1>4. Pending = 0
  <2>1. UNION {{t} \X (1 .. issue[t]) : t \in Threads} = {}
    BY DEF Init
  <2> QED
    BY <2>1, FS_EmptySet DEF Pending
<1>5. CountInv /\ SleepInv /\ GateInv /\ WakeInv
  <2>1. SleepInv
    BY <1>3 DEF Init, SleepInv, Slept, Sems
  <2>2. CountInv /\ GateInv /\ WakeInv
    BY <1>3, <1>4 DEF Init, CountInv, GateInv, GateTokens, WakeInv, Wakeups, Tokens, Sems
  <2> QED
    BY <2>1, <2>2
<1>6. LockInv
  BY CondAssumption DEF Init, LockInv, UnblockAt, ClosingAt
<1>7. DestroyInv
  BY DEF Init, DestroyInv, DestroyedIsQuiet, Destroying
<1> QED
  BY <1>1, <1>5, <1>6, <1>7 DEF IInv

\* The gate, the lock of the signals and the counters let nobody be inside
\* when the variable is destroyed.
LEMMA NobodyInside ==
  ASSUME IInv, NEW t \in Threads, pc[t] = "destroy_try", unblockLock = None, ~SomebodyWaits,
         NEW u \in Threads, u # t
  PROVE  pc[u] \in {"idle", "relock"}
<1>1. t \in At(GateAt) /\ Gatekeepers >= 1
  BY SomebodyThere DEF Gatekeepers, GateAt, At
<1>2. Gatekeepers = 1 /\ toUnblock = 0
  BY <1>1, CountsAreNumbers, WakeupsAreNumbers DEF IInv, TypeOK, GateInv, GateTokens, Sems
<1>3. u \notin At(GateAt)
  <2>1. PICK x : At(GateAt) = {x}
    BY <1>2, AtIsFinite, FS_Singleton DEF Gatekeepers
  <2> QED
    BY <1>1, <2>1
<1>4. pc[u] \notin CountedAt
  <2>1. Waiters <= 0
    BY <1>2 DEF IInv, TypeOK, CountInv, SomebodyWaits
  <2> QED
    BY <2>1, SomebodyThere, CountsAreNumbers DEF Waiters
<1>5. pc[u] \notin UnblockAt
  BY CondAssumption DEF IInv, LockInv
<1>6. pc[u] \notin Entering \cup Signalling \cup Destroying
  BY DEF IInv, DestroyInv, Destroying
<1> QED
  BY <1>3, <1>4, <1>5, <1>6
  DEF IInv, TypeOK, At, GateAt, CountedAt, UnblockAt, Entering, Cleaning, Signalling, Destroying

LEMMA StepIInv == IInv /\ [Next]_vars => IInv'
<1> SUFFICES ASSUME IInv, [Next]_vars PROVE IInv'
  OBVIOUS
<1> USE DEF IInv, CountsInv
<1>1. ASSUME NEW t \in Threads, Lock(t) PROVE IInv'
  <2>1. TypeOK'
    BY <1>1 DEF Lock, semVars, counters, bounds, TypeOK, Sems, Entering, Cleaning, Signalling, Destroying
  <2>2. CountsInv'
    BY <1>1 DEF Lock, semVars, counters, bounds, CountInv, SleepInv, Slept, GateInv, GateTokens, WakeInv, Wakeups, Waiters, Asleep, Gatekeepers, Leavers, At, Tokens, Pending
  <2>3. LockInv'
    BY <1>1, CondAssumption DEF Lock, semVars, counters, bounds, LockInv, TypeOK, UnblockAt, ClosingAt
  <2>4. DestroyInv'
    BY <1>1 DEF Lock, semVars, counters, bounds, TypeOK, DestroyInv, DestroyedIsQuiet, Entering, Cleaning, Signalling, Destroying
  <2> QED
    BY <2>1, <2>2, <2>3, <2>4
<1>2. ASSUME NEW t \in Threads, Unlock(t) PROVE IInv'
  <2>1. TypeOK'
    BY <1>2 DEF Unlock, semVars, counters, bounds, TypeOK, Sems, Entering, Cleaning, Signalling, Destroying
  <2>2. CountsInv'
    BY <1>2 DEF Unlock, semVars, counters, bounds, CountInv, SleepInv, Slept, GateInv, GateTokens, WakeInv, Wakeups, Waiters, Asleep, Gatekeepers, Leavers, At, Tokens, Pending
  <2>3. LockInv'
    BY <1>2, CondAssumption DEF Unlock, semVars, counters, bounds, LockInv, TypeOK, UnblockAt, ClosingAt
  <2>4. DestroyInv'
    BY <1>2 DEF Unlock, semVars, counters, bounds, TypeOK, DestroyInv, DestroyedIsQuiet, Entering, Cleaning, Signalling, Destroying
  <2> QED
    BY <2>1, <2>2, <2>3, <2>4
<1>3. ASSUME NEW t \in Threads, Wait(t) PROVE IInv'
  <2>1. TypeOK'
    BY <1>3 DEF Wait, MayCall, GoTo, Fixed, semVars, counters, bounds, TypeOK, Sems, Entering, Cleaning, Signalling, Destroying
  <2>2. CountsInv'
    BY <1>3, MoveCounts DEF Wait, Fixed, bounds, CountedAt, AsleepAt, GateAt
  <2>3. LockInv'
    BY <1>3, CondAssumption DEF Wait, MayCall, GoTo, Fixed, semVars, counters, bounds, LockInv, TypeOK, UnblockAt, ClosingAt
  <2>4. DestroyInv'
    BY <1>3 DEF Wait, MayCall, GoTo, Fixed, semVars, counters, bounds, TypeOK, DestroyInv, DestroyedIsQuiet, Entering, Cleaning, Signalling, Destroying
  <2> QED
    BY <2>1, <2>2, <2>3, <2>4
<1>4. ASSUME NEW t \in Threads, Destroy(t) PROVE IInv'
  <2>1. TypeOK'
    BY <1>4 DEF Destroy, MayCall, GoTo, Fixed, semVars, counters, bounds, TypeOK, Sems, Entering, Cleaning, Signalling, Destroying
  <2>2. CountsInv'
    BY <1>4, MoveCounts DEF Destroy, Fixed, bounds, CountedAt, AsleepAt, GateAt
  <2>3. LockInv'
    BY <1>4, CondAssumption DEF Destroy, MayCall, GoTo, Fixed, semVars, counters, bounds, LockInv, TypeOK, UnblockAt, ClosingAt
  <2>4. DestroyInv'
    BY <1>4 DEF Destroy, MayCall, GoTo, Fixed, semVars, counters, bounds, TypeOK, DestroyInv, DestroyedIsQuiet, Entering, Cleaning, Signalling, Destroying
  <2> QED
    BY <2>1, <2>2, <2>3, <2>4
<1>5. ASSUME NEW t \in Threads, Relock(t) PROVE IInv'
  <2>1. TypeOK'
    BY <1>5 DEF Relock, GoTo, Fixed, semVars, counters, bounds, TypeOK, Sems, Entering, Cleaning, Signalling, Destroying
  <2>2. CountsInv'
    BY <1>5, MoveCounts DEF Relock, Fixed, bounds, CountedAt, AsleepAt, GateAt
  <2>3. LockInv'
    BY <1>5, CondAssumption DEF Relock, GoTo, Fixed, semVars, counters, bounds, LockInv, TypeOK, UnblockAt, ClosingAt
  <2>4. DestroyInv'
    BY <1>5 DEF Relock, GoTo, Fixed, semVars, counters, bounds, TypeOK, DestroyInv, DestroyedIsQuiet, Entering, Cleaning, Signalling, Destroying
  <2> QED
    BY <2>1, <2>2, <2>3, <2>4
<1>6. ASSUME NEW t \in Threads, UnlockMutex(t) PROVE IInv'
  <2>1. TypeOK'
    BY <1>6 DEF UnlockMutex, GoTo, Fixed, semVars, counters, bounds, TypeOK, Sems, Entering, Cleaning, Signalling, Destroying
  <2>2. CountsInv'
    BY <1>6, MoveCounts DEF UnlockMutex, Fixed, bounds, CountedAt, AsleepAt, GateAt
  <2>3. LockInv'
    BY <1>6, CondAssumption DEF UnlockMutex, GoTo, Fixed, semVars, counters, bounds, LockInv, TypeOK, UnblockAt, ClosingAt
  <2>4. DestroyInv'
    BY <1>6 DEF UnlockMutex, GoTo, Fixed, semVars, counters, bounds, TypeOK, DestroyInv, DestroyedIsQuiet, Entering, Cleaning, Signalling, Destroying
  <2> QED
    BY <2>1, <2>2, <2>3, <2>4
<1>7. ASSUME NEW t \in Threads, UnblockFirst(t) PROVE IInv'
  <2>1. TypeOK'
    BY <1>7 DEF UnblockFirst, SomebodyWaits, GoTo, Fixed, semVars, counters, bounds, TypeOK, Sems, Entering, Cleaning, Signalling, Destroying
  <2>2. CountsInv'
    BY <1>7, MoveCounts DEF UnblockFirst, Fixed, bounds, CountedAt, AsleepAt, GateAt
  <2>3. LockInv'
    BY <1>7, CondAssumption DEF UnblockFirst, SomebodyWaits, GoTo, Fixed, semVars, counters, bounds, LockInv, TypeOK, UnblockAt, ClosingAt
  <2>4. DestroyInv'
    BY <1>7 DEF UnblockFirst, SomebodyWaits, GoTo, Fixed, semVars, counters, bounds, TypeOK, DestroyInv, DestroyedIsQuiet, Entering, Cleaning, Signalling, Destroying
  <2> QED
    BY <2>1, <2>2, <2>3, <2>4
<1>8. ASSUME NEW t \in Threads, EnterGate(t) PROVE IInv'
  <2>1. TypeOK'
    BY <1>8 DEF EnterGate, Down, Take, GoTo, Fixed, semVars, counters, bounds, TypeOK, Sems, Entering, Cleaning, Signalling, Destroying
  <2>2. CountsInv'
    BY <1>8, GateDownCounts, GateTakeCounts DEF EnterGate, AtGateOnly, Fixed, CountedAt, AsleepAt, GateAt, Sems
  <2>3. LockInv'
    BY <1>8, CondAssumption DEF EnterGate, Down, Take, GoTo, Fixed, semVars, counters, bounds, LockInv, TypeOK, UnblockAt, ClosingAt
  <2>4. DestroyInv'
    BY <1>8 DEF EnterGate, Down, Take, GoTo, Fixed, semVars, counters, bounds, TypeOK, DestroyInv, DestroyedIsQuiet, Entering, Cleaning, Signalling, Destroying
  <2> QED
    BY <2>1, <2>2, <2>3, <2>4
<1>9. ASSUME NEW t \in Threads, GoneGate(t) PROVE IInv'
  <2>1. TypeOK'
    BY <1>9 DEF GoneGate, Down, Take, GoTo, Fixed, semVars, counters, bounds, TypeOK, Sems, Entering, Cleaning, Signalling, Destroying
  <2>2. CountsInv'
    BY <1>9, GateDownCounts, GateTakeCounts DEF GoneGate, AtGateOnly, Fixed, CountedAt, AsleepAt, GateAt, Sems
  <2>3. LockInv'
    BY <1>9, CondAssumption DEF GoneGate, Down, Take, GoTo, Fixed, semVars, counters, bounds, LockInv, TypeOK, UnblockAt, ClosingAt
  <2>4. DestroyInv'
    BY <1>9 DEF GoneGate, Down, Take, GoTo, Fixed, semVars, counters, bounds, TypeOK, DestroyInv, DestroyedIsQuiet, Entering, Cleaning, Signalling, Destroying
  <2> QED
    BY <2>1, <2>2, <2>3, <2>4
<1>10. ASSUME NEW t \in Threads, CloseGate(t) PROVE IInv'
  <2>1. TypeOK'
    BY <1>10 DEF CloseGate, Down, Take, GoTo, Fixed, semVars, counters, bounds, TypeOK, Sems, Entering, Cleaning, Signalling, Destroying
  <2>2. CountsInv'
    BY <1>10, GateDownCounts, GateTakeCounts DEF CloseGate, AtGateOnly, Fixed, CountedAt, AsleepAt, GateAt, Sems
  <2>3. LockInv'
    BY <1>10, CondAssumption DEF CloseGate, Down, Take, GoTo, Fixed, semVars, counters, bounds, LockInv, TypeOK, UnblockAt, ClosingAt
  <2>4. DestroyInv'
    BY <1>10 DEF CloseGate, Down, Take, GoTo, Fixed, semVars, counters, bounds, TypeOK, DestroyInv, DestroyedIsQuiet, Entering, Cleaning, Signalling, Destroying
  <2> QED
    BY <2>1, <2>2, <2>3, <2>4
<1>11. ASSUME NEW t \in Threads, DestroyGate(t) PROVE IInv'
  <2>1. TypeOK'
    BY <1>11 DEF DestroyGate, Down, Take, GoTo, Fixed, semVars, counters, bounds, TypeOK, Sems, Entering, Cleaning, Signalling, Destroying
  <2>2. CountsInv'
    BY <1>11, GateDownCounts, GateTakeCounts DEF DestroyGate, AtGateOnly, Fixed, CountedAt, AsleepAt, GateAt, Sems
  <2>3. LockInv'
    BY <1>11, CondAssumption DEF DestroyGate, Down, Take, GoTo, Fixed, semVars, counters, bounds, LockInv, TypeOK, UnblockAt, ClosingAt
  <2>4. DestroyInv'
    BY <1>11 DEF DestroyGate, Down, Take, GoTo, Fixed, semVars, counters, bounds, TypeOK, DestroyInv, DestroyedIsQuiet, Entering, Cleaning, Signalling, Destroying
  <2> QED
    BY <2>1, <2>2, <2>3, <2>4
<1>12. ASSUME NEW t \in Threads, Count(t) PROVE IInv'
  <2>1. TypeOK'
    BY <1>12 DEF Count, GoTo, Fixed, semVars, counters, bounds, TypeOK, Sems, Entering, Cleaning, Signalling, Destroying
  <2>2. CountsInv'
    BY <1>12, CountCounts
  <2>3. LockInv'
    BY <1>12, CondAssumption DEF Count, GoTo, Fixed, semVars, counters, bounds, LockInv, TypeOK, UnblockAt, ClosingAt
  <2>4. DestroyInv'
    BY <1>12 DEF Count, GoTo, Fixed, semVars, counters, bounds, TypeOK, DestroyInv, DestroyedIsQuiet, Entering, Cleaning, Signalling, Destroying
  <2> QED
    BY <2>1, <2>2, <2>3, <2>4
<1>13. ASSUME NEW t \in Threads, LeaveGate(t) PROVE IInv'
  <2>1. TypeOK'
    BY <1>13 DEF LeaveGate, Up, Released, GoTo, Fixed, semVars, counters, bounds, TypeOK, Sems, Entering, Cleaning, Signalling, Destroying
  <2>2. CountsInv'
    BY <1>13, GateUpCounts DEF LeaveGate, counters, Fixed, TypeOK, CountedAt, AsleepAt, GateAt, Sems
  <2>3. LockInv'
    BY <1>13, CondAssumption DEF LeaveGate, Up, Released, GoTo, Fixed, semVars, counters, bounds, LockInv, TypeOK, UnblockAt, ClosingAt
  <2>4. DestroyInv'
    BY <1>13 DEF LeaveGate, Up, Released, GoTo, Fixed, semVars, counters, bounds, TypeOK, DestroyInv, DestroyedIsQuiet, Entering, Cleaning, Signalling, Destroying
  <2> QED
    BY <2>1, <2>2, <2>3, <2>4
<1>14. ASSUME NEW t \in Threads, OpenGate(t) PROVE IInv'
  <2>1. TypeOK'
    BY <1>14 DEF OpenGate, Up, Released, GoTo, Fixed, semVars, counters, bounds, TypeOK, Sems, Entering, Cleaning, Signalling, Destroying
  <2>2. CountsInv'
    BY <1>14, GateUpCounts DEF OpenGate, counters, Fixed, TypeOK, CountedAt, AsleepAt, GateAt, Sems
  <2>3. LockInv'
    BY <1>14, CondAssumption DEF OpenGate, Up, Released, GoTo, Fixed, semVars, counters, bounds, LockInv, TypeOK, UnblockAt, ClosingAt
  <2>4. DestroyInv'
    BY <1>14 DEF OpenGate, Up, Released, GoTo, Fixed, semVars, counters, bounds, TypeOK, DestroyInv, DestroyedIsQuiet, Entering, Cleaning, Signalling, Destroying
  <2> QED
    BY <2>1, <2>2, <2>3, <2>4
<1>15. ASSUME NEW t \in Threads, GoneAdjust(t) PROVE IInv'
  <2>1. TypeOK'
    <3>1. blocked - gone \in Nat
      BY <1>15, CountsAreNumbers DEF GoneAdjust, GoTo, TypeOK, CountInv, LockInv, UnblockAt, ClosingAt
    <3> QED
      BY <1>15, <3>1 DEF GoneAdjust, Up, Released, GoTo, Fixed, semVars, counters, bounds, TypeOK, Sems, Entering, Cleaning, Signalling, Destroying
  <2>2. CountsInv'
    BY <1>15, GateUpCounts DEF GoneAdjust, counters, Fixed, TypeOK, CountedAt, AsleepAt, GateAt, Sems
  <2>3. LockInv'
    BY <1>15, CondAssumption DEF GoneAdjust, Up, Released, GoTo, Fixed, semVars, counters, bounds, LockInv, TypeOK, UnblockAt, ClosingAt
  <2>4. DestroyInv'
    BY <1>15 DEF GoneAdjust, Up, Released, GoTo, Fixed, semVars, counters, bounds, TypeOK, DestroyInv, DestroyedIsQuiet, Entering, Cleaning, Signalling, Destroying
  <2> QED
    BY <2>1, <2>2, <2>3, <2>4
<1>16. ASSUME NEW t \in Threads, Queue(t) PROVE IInv'
  <2>1. TypeOK'
    BY <1>16 DEF Queue, Down, Take, GoTo, Fixed, semVars, counters, bounds, TypeOK, Sems, Entering, Cleaning, Signalling, Destroying
  <2>2. CountsInv'
    BY <1>16, QueueCounts
  <2>3. LockInv'
    BY <1>16, CondAssumption DEF Queue, Down, Take, GoTo, Fixed, semVars, counters, bounds, LockInv, TypeOK, UnblockAt, ClosingAt
  <2>4. DestroyInv'
    BY <1>16 DEF Queue, Down, Take, GoTo, Fixed, semVars, counters, bounds, TypeOK, DestroyInv, DestroyedIsQuiet, Entering, Cleaning, Signalling, Destroying
  <2> QED
    BY <2>1, <2>2, <2>3, <2>4
<1>17. ASSUME NEW t \in Threads, GiveUp(t) PROVE IInv'
  <2>1. TypeOK'
    BY <1>17 DEF GiveUp, GoTo, Fixed, semVars, counters, bounds, TypeOK, Sems, Entering, Cleaning, Signalling, Destroying
  <2>2. CountsInv'
    BY <1>17, GiveUpCounts
  <2>3. LockInv'
    BY <1>17, CondAssumption DEF GiveUp, GoTo, Fixed, semVars, counters, bounds, LockInv, TypeOK, UnblockAt, ClosingAt
  <2>4. DestroyInv'
    BY <1>17 DEF GiveUp, GoTo, Fixed, semVars, counters, bounds, TypeOK, DestroyInv, DestroyedIsQuiet, Entering, Cleaning, Signalling, Destroying
  <2> QED
    BY <2>1, <2>2, <2>3, <2>4
<1>18. ASSUME NEW t \in Threads, QueueBack(t) PROVE IInv'
  <2>1. TypeOK'
    BY <1>18 DEF QueueBack, Take, GoTo, Fixed, semVars, counters, bounds, TypeOK, Sems, Entering, Cleaning, Signalling, Destroying
  <2>2. CountsInv'
    BY <1>18, QueueBackCounts
  <2>3. LockInv'
    BY <1>18, CondAssumption DEF QueueBack, Take, GoTo, Fixed, semVars, counters, bounds, LockInv, TypeOK, UnblockAt, ClosingAt
  <2>4. DestroyInv'
    BY <1>18 DEF QueueBack, Take, GoTo, Fixed, semVars, counters, bounds, TypeOK, DestroyInv, DestroyedIsQuiet, Entering, Cleaning, Signalling, Destroying
  <2> QED
    BY <2>1, <2>2, <2>3, <2>4
<1>19. ASSUME NEW t \in Threads, Cleanup(t) PROVE IInv'
  <2>1. TypeOK'
    BY <1>19 DEF Cleanup, LastSignal, GoTo, Fixed, semVars, counters, bounds, TypeOK, Sems, Entering, Cleaning, Signalling, Destroying
  <2>2. CountsInv'
    BY <1>19, CleanupCounts
  <2>3. LockInv'
    BY <1>19, CondAssumption DEF Cleanup, LastSignal, GoTo, Fixed, semVars, counters, bounds, LockInv, TypeOK, UnblockAt, ClosingAt
  <2>4. DestroyInv'
    BY <1>19 DEF Cleanup, LastSignal, GoTo, Fixed, semVars, counters, bounds, TypeOK, DestroyInv, DestroyedIsQuiet, Entering, Cleaning, Signalling, Destroying
  <2> QED
    BY <2>1, <2>2, <2>3, <2>4
<1>20. ASSUME NEW t \in Threads, UnblockMore(t) PROVE IInv'
  <2>1. TypeOK'
    BY <1>20 DEF UnblockMore, GoTo, Fixed, semVars, counters, bounds, TypeOK, Sems, Entering, Cleaning, Signalling, Destroying
  <2>2. CountsInv'
    <3>1. CASE blocked = 0
      BY <1>20, <3>1, MoveCounts DEF UnblockMore, counters, Fixed, CountedAt, AsleepAt, GateAt
    <3>2. CASE blocked # 0
      <4> DEFINE n == IF everybody[t] THEN blocked ELSE 1
      <4>1. n \in Nat \ {0} /\ toUnblock > 0
        BY <1>20, <3>2 DEF UnblockMore, TypeOK
      <4>2. /\ GoTo(t, "unblock", "issue") /\ issue' = [issue EXCEPT ![t] = n]
            /\ toUnblock' = toUnblock + n /\ blocked' = blocked - n /\ gone' = gone
            /\ UNCHANGED <<semVars, destroyed, quits>>
        BY <1>20, <3>2 DEF UnblockMore, Fixed
      <4> HIDE DEF n
      <4>3. (blocked - gone)' = blocked - gone - n
        BY <4>1, <4>2 DEF TypeOK
      <4> QED
        BY <4>1, <4>2, <4>3, SignalsCount
    <3> QED
      BY <3>1, <3>2
  <2>3. LockInv'
    BY <1>20, CondAssumption DEF UnblockMore, GoTo, Fixed, semVars, counters, bounds, LockInv, TypeOK, UnblockAt, ClosingAt
  <2>4. DestroyInv'
    BY <1>20 DEF UnblockMore, GoTo, Fixed, semVars, counters, bounds, TypeOK, DestroyInv, DestroyedIsQuiet, Entering, Cleaning, Signalling, Destroying
  <2> QED
    BY <2>1, <2>2, <2>3, <2>4
<1>21. ASSUME NEW t \in Threads, Mark(t) PROVE IInv'
  <2>1. TypeOK'
    <3>1. blocked - gone \in Nat
      BY <1>21, CountsAreNumbers DEF Mark, GoTo, TypeOK, CountInv, LockInv, UnblockAt, ClosingAt
    <3>2. blocked - gone > 0
      BY <1>21 DEF Mark, GoTo, TypeOK, LockInv, ClosingAt
    <3> QED
      BY <1>21, <3>1, <3>2 DEF Mark, StillHere, GoTo, Fixed, semVars, counters, bounds, TypeOK, Sems, Entering, Cleaning, Signalling, Destroying
  <2>2. CountsInv'
    <3> DEFINE n == IF everybody[t] THEN StillHere ELSE 1
    <3>1. n \in Nat \ {0} /\ toUnblock = 0 /\ blocked - gone \in Nat
      BY <1>21 DEF Mark, StillHere, GoTo, TypeOK, LockInv, UnblockAt, ClosingAt
    <3>2. /\ GoTo(t, "mark", "issue") /\ issue' = [issue EXCEPT ![t] = n]
          /\ toUnblock' = n /\ blocked' = (blocked - gone) - n /\ gone' = 0
          /\ UNCHANGED <<semVars, destroyed, quits>>
      BY <1>21 DEF Mark, StillHere, Fixed
    <3> HIDE DEF n
    <3>3. (blocked - gone)' = blocked - gone - n /\ toUnblock' = toUnblock + n
      BY <3>1, <3>2 DEF TypeOK
    <3>4. toUnblock > 0 <=> "mark" = "unblock"
      BY <3>1
    <3>5. toUnblock' = toUnblock + n /\ UNCHANGED <<semVars, destroyed, quits>>
      BY <3>2, <3>3
    <3> QED
      BY <3>1, <3>2, <3>3, <3>4, <3>5, SignalsCount
  <2>3. LockInv'
    BY <1>21, CondAssumption DEF Mark, StillHere, GoTo, Fixed, semVars, counters, bounds, LockInv, TypeOK, UnblockAt, ClosingAt
  <2>4. DestroyInv'
    BY <1>21 DEF Mark, StillHere, GoTo, Fixed, semVars, counters, bounds, TypeOK, DestroyInv, DestroyedIsQuiet, Entering, Cleaning, Signalling, Destroying
  <2> QED
    BY <2>1, <2>2, <2>3, <2>4
<1>22. ASSUME NEW t \in Threads, Issue(t) PROVE IInv'
  <2>1. TypeOK'
    BY <1>22 DEF Issue, Up, Released, GoTo, Fixed, semVars, counters, bounds, TypeOK, Sems, Entering, Cleaning, Signalling, Destroying
  <2>2. CountsInv'
    BY <1>22, IssueCounts
  <2>3. LockInv'
    BY <1>22, CondAssumption DEF Issue, Up, Released, GoTo, Fixed, semVars, counters, bounds, LockInv, TypeOK, UnblockAt, ClosingAt
  <2>4. DestroyInv'
    BY <1>22 DEF Issue, Up, Released, GoTo, Fixed, semVars, counters, bounds, TypeOK, DestroyInv, DestroyedIsQuiet, Entering, Cleaning, Signalling, Destroying
  <2> QED
    BY <2>1, <2>2, <2>3, <2>4
<1>23. ASSUME NEW t \in Threads, DestroyTry(t) PROVE IInv'
  <2>1. TypeOK'
    <3>1. CASE Up("gate", 1) /\ UNCHANGED destroyed
      BY <1>23, <3>1 DEF DestroyTry, Up, Released, GoTo, counters, bounds, TypeOK, Sems
    <3>2. CASE destroyed' = TRUE /\ UNCHANGED semVars
      BY <1>23, <3>2 DEF DestroyTry, GoTo, semVars, counters, bounds, TypeOK
    <3> QED
      BY <1>23, <3>1, <3>2 DEF DestroyTry
  <2>2. CountsInv'
    BY <1>23, DestroyTryCounts
  <2>3. LockInv'
    BY <1>23, CondAssumption DEF DestroyTry, Up, Released, GoTo, Fixed, semVars, counters, bounds, LockInv, TypeOK, UnblockAt, ClosingAt
  <2>4. DestroyInv'
    <3>1. CASE UNCHANGED destroyed
      BY <1>23, <3>1 DEF DestroyTry, GoTo, TypeOK, DestroyInv, DestroyedIsQuiet, Entering, Cleaning, Signalling, Destroying
    <3>2. CASE ~(unblockLock # None \/ SomebodyWaits)
      BY <1>23, <3>2, NobodyInside DEF DestroyTry, GoTo, TypeOK, DestroyInv, DestroyedIsQuiet, Entering, Cleaning, Signalling, Destroying
    <3> QED
      BY <1>23, <3>1, <3>2 DEF DestroyTry
  <2> QED
    BY <2>1, <2>2, <2>3, <2>4
<1>24. ASSUME NEW t \in Threads, NEW all \in BOOLEAN, Signal(t, all) PROVE IInv'
  <2>1. TypeOK'
    BY <1>24 DEF Signal, MayCall, GoTo, Fixed, semVars, counters, bounds, TypeOK, Sems, Entering, Cleaning, Signalling, Destroying
  <2>2. CountsInv'
    BY <1>24, MoveCounts DEF Signal, Fixed, bounds, CountedAt, AsleepAt, GateAt
  <2>3. LockInv'
    BY <1>24, CondAssumption DEF Signal, MayCall, GoTo, Fixed, semVars, counters, bounds, LockInv, TypeOK, UnblockAt, ClosingAt
  <2>4. DestroyInv'
    BY <1>24 DEF Signal, MayCall, GoTo, Fixed, semVars, counters, bounds, TypeOK, DestroyInv, DestroyedIsQuiet, Entering, Cleaning, Signalling, Destroying
  <2> QED
    BY <2>1, <2>2, <2>3, <2>4
<1>26. ASSUME NEW t \in Threads, CancelAtGate(t) PROVE IInv'
  <2>1. TypeOK'
    BY <1>26 DEF CancelAtGate, GoTo, Fixed, semVars, counters, bounds, TypeOK, Sems, Entering, Cleaning, Signalling, Destroying
  <2>2. CountsInv'
    BY <1>26, CancelCounts
  <2>3. LockInv'
    BY <1>26, CondAssumption DEF CancelAtGate, GoTo, Fixed, semVars, counters, bounds, LockInv, TypeOK, UnblockAt, ClosingAt
  <2>4. DestroyInv'
    BY <1>26 DEF CancelAtGate, GoTo, Fixed, semVars, counters, bounds, TypeOK, DestroyInv, DestroyedIsQuiet, Entering, Cleaning, Signalling, Destroying
  <2> QED
    BY <2>1, <2>2, <2>3, <2>4
<1>27. ASSUME NEW t \in Threads, GateBack(t) PROVE IInv'
  <2>1. TypeOK'
    BY <1>27 DEF GateBack, GoTo, Fixed, semVars, counters, bounds, TypeOK, Sems, Entering, Cleaning, Signalling, Destroying
  <2>2. CountsInv'
    BY <1>27, GateBackCounts
  <2>3. LockInv'
    BY <1>27, CondAssumption DEF GateBack, GoTo, Fixed, semVars, counters, bounds, LockInv, TypeOK, UnblockAt, ClosingAt
  <2>4. DestroyInv'
    BY <1>27 DEF GateBack, GoTo, Fixed, semVars, counters, bounds, TypeOK, DestroyInv, DestroyedIsQuiet, Entering, Cleaning, Signalling, Destroying
  <2> QED
    BY <2>1, <2>2, <2>3, <2>4
<1>25. CASE UNCHANGED vars
  BY <1>25 DEF vars, semVars, counters, bounds, TypeOK, CountInv, SleepInv, Slept, GateInv, GateTokens, LockInv, WakeInv, Wakeups,
                DestroyInv, DestroyedIsQuiet, Waiters, Asleep, Gatekeepers, Leavers, At, Tokens, Pending
<1> QED
  BY <1>1, <1>2, <1>3, <1>4, <1>5, <1>6, <1>7, <1>8, <1>9, <1>10, <1>11, <1>12, <1>13, <1>14, <1>15, <1>16, <1>17, <1>18, <1>19, <1>20, <1>21, <1>22, <1>23, <1>24, <1>25, <1>26, <1>27 DEF Next, Step

LEMMA Invariance == Spec => []IInv
  BY InitIInv, StepIInv, PTL DEF Spec

-----------------------------------------------------------------------------
(***************************************************************************)
(* The theorems                                                            *)
(***************************************************************************)

\* The counters nWaitersBlocked, nWaitersGone and nWaitersToUnblock account for
\* every waiter between pthread_cond_wait's count and its cleanup, and each
\* semaphore for those who sleep on it, whatever signals, timeouts and
\* cancellations meet; a thread cancelled at the gate may leave a wakeup there, or
\* take the one of another with it.
THEOREM WaitersAreAccountedFor == Spec => []WaitersAccounted
<1>1. IInv => WaitersAccounted
  <2> SUFFICES ASSUME IInv PROVE WaitersAccounted
    OBVIOUS
  <2>1. Cardinality(Counted) = blocked - gone + toUnblock
    BY DEF IInv, CountInv, Waiters, CountedAt, Counted
  <2>2. \A s \in Sems : Cardinality(Sleeping(s)) = Asleep(s)
    BY DEF Sleeping, AsleepAt, Asleep, Sems
  <2>3. GateLost => quits > 0
    <3>1. SUFFICES ASSUME GateLost, quits = 0 PROVE FALSE
      BY DEF IInv, TypeOK
    <3>2. Gatekeepers = 0
      BY <3>1, FS_EmptySet DEF GateLost, Gatekeepers, GateAt
    <3>3. Tokens("gate") = 0
      BY <3>1 DEF GateLost, Tokens, IInv, TypeOK, Sems
    <3> QED
      BY <3>1, <3>2, <3>3 DEF IInv, TypeOK, GateInv, GateTokens, GateLost
  <2> QED
    BY <2>1, <2>2, <2>3 DEF IInv, SleepInv, Slept, WaitersAccounted
<1> QED
  BY <1>1, Invariance, PTL

\* Every signal of pthread_cond_signal and pthread_cond_broadcast has its
\* wakeup, and as long as no waiter gives up there are no others; until the
\* signalled have left nobody comes in through the gate.
THEOREM SignalsHaveTheirWakeups == Spec => []SignalsAreWakeups
<1>1. IInv => SignalsAreWakeups
  <2> SUFFICES ASSUME IInv PROVE SignalsAreWakeups
    OBVIOUS
  <2>1. /\ Wakeups = Pending + Tokens("queue") + Cardinality(At({"cleanup"}))
        /\ Tokens("queue") = kernel["queue"] + (IF value["queue"] > 0 THEN value["queue"] ELSE 0)
    BY DEF Wakeups, Leavers, Tokens
  <2>2. Wakeups = Pending + kernel["queue"] + (IF value["queue"] > 0 THEN value["queue"] ELSE 0)
                     + Cardinality(At({"cleanup"}))
    BY <2>1, WakeupsAreNumbers, AtIsFinite DEF IInv, TypeOK, Sems
  <2>3. ASSUME toUnblock > 0, NEW t \in At({"count", "gate_post"}) PROVE FALSE
    <3>1. t \in Threads /\ pc[t] \in GateAt
      BY DEF At, GateAt
    <3>2. Gatekeepers >= 1
      BY <3>1, SomebodyThere DEF Gatekeepers
    <3>3. Tokens("gate") \in Nat
      BY <3>1, WakeupsAreNumbers DEF IInv, Sems
    <3> QED
      BY <2>3, <3>2, <3>3, CountsAreNumbers DEF IInv, GateInv, GateTokens
  <2> QED
    BY <2>2, <2>3 DEF IInv, WakeInv, SignalsAreWakeups
<1> QED
  BY <1>1, Invariance, PTL

\* pthread_cond_destroy takes the variable away from nobody: whoever is still
\* in a wait has only the mutex of the callers to lock.
THEOREM NobodyIsLeftInside == Spec => []DestroyedIsQuiet
<1>1. IInv => DestroyedIsQuiet
  BY DEF IInv, DestroyInv
<1> QED
  BY <1>1, Invariance, PTL
=============================================================================
