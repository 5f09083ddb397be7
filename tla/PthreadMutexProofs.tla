------------------------- MODULE PthreadMutexProofs -------------------------
(***************************************************************************)
(* Proofs about PthreadMutex, for any threads and any bounds.              *)
(*                                                                         *)
(* The invariant follows the lock from the exchange that takes it to the   *)
(* exchange that frees it: who has it, in a call or after one, what        *)
(* lock_idx, the owner and the count say of it, and what the state of a    *)
(* robust mutex says of the data.                                          *)
(***************************************************************************)
EXTENDS PthreadMutex, TLAPS

\* t has the lock, and may have yet to find out that it is lost.
Has(t) == held[t] > 0 \/ pc[t] = "after"

LockedInv ==
  /\ \A t, u \in Threads : Has(t) /\ Has(u) => t = u
  /\ \A t \in Threads : Has(t) => /\ lock_idx # 0
                                  /\ made
                                  /\ state # "dead"
                                  /\ state = "inconsistent" => told[t]

ControlInv ==
  \A t \in Threads :
    /\ pc[t] \in Locking \ {"need_init"} => made
    /\ pc[t] \in {"mark", "leave"} => held[t] > 0
    /\ pc[t] = "leave" => state # "inconsistent"
    /\ pc[t] = "after" => robust /\ kind # "normal" /\ held[t] = 0
    /\ pc[t] \in {"slow", "exchange", "wait", "woken"} => held[t] = 0
    /\ kind = "normal" /\ pc[t] \in Locking => held[t] = 0

OwnerInv ==
  /\ \A t \in Threads : owner = t => held[t] > 0 \/ pc[t] \in {"die_event", "dead"}
  /\ kind # "normal" => \A t \in Threads : held[t] > 0 => owner = t
  /\ kind = "recursive" => \A t \in Threads : held[t] > 0 => count = held[t]

StateInv ==
  /\ robust => made
  /\ ~robust => state = "consistent"
  /\ state \in {"dead", "inconsistent"} => lock_idx # 0
  /\ dirty => state # "consistent"

IInv == LockedInv /\ ControlInv /\ OwnerInv /\ StateInv

-----------------------------------------------------------------------------

\* No step leaves the types.
LEMMA StepType == TypeOK /\ IInv /\ [Next]_vars => TypeOK'
<1> SUFFICES ASSUME TypeOK /\ IInv, [Next]_vars PROVE TypeOK'
  OBVIOUS
<1> USE DEF TypeOK, Ops, Kinds, Locking, Unlocking, mutexVars, historyVars
<1>1. ASSUME NEW t \in Threads, NEW call \in Ops \ {"none"}, Call(t, call) PROVE TypeOK'
  BY <1>1 DEF Call, GoTo, IInv, ControlInv
<1>2. ASSUME NEW t \in Threads, NeedInit(t) PROVE TypeOK'
  <2>1. CASE made
    BY <1>2, <2>1 DEF NeedInit, GoTo, StillStatic
  <2>2. CASE ~made
    <3>1. lock_idx' = 0 /\ event' = FALSE /\ owner' = None /\ count' = 0 /\ made' = TRUE
      BY <1>2, <2>2, Zenon DEF NeedInit, StillStatic
    <3>2. /\ pc' = [pc EXCEPT ![t] = "first"]
          /\ UNCHANGED <<kind, robust, op, held, told, dirty, calls, deaths, state>>
      BY <1>2, Zenon DEF NeedInit, GoTo
    <3> QED
      BY <3>1, <3>2
  <2> QED
    BY <2>1, <2>2
<1>3. ASSUME NEW t \in Threads, Check(t) PROVE TypeOK'
  BY <1>3 DEF Check, GoTo, Fixed, IInv, ControlInv
<1>4. ASSUME NEW t \in Threads, FirstExchange(t) PROVE TypeOK'
  BY <1>4 DEF FirstExchange, GoTo, Give, Fixed, IInv, ControlInv
<1>5. ASSUME NEW t \in Threads, FirstCompare(t) PROVE TypeOK'
  BY <1>5 DEF FirstCompare, GoTo, Give, Fixed, IInv, ControlInv
<1>6. ASSUME NEW t \in Threads, LockAgain(t) PROVE TypeOK'
  BY <1>6 DEF LockAgain, GoTo, Fixed, IInv, ControlInv
<1>7. ASSUME NEW t \in Threads, FirstFails(t) PROVE TypeOK'
  BY <1>7 DEF FirstFails, GoTo, Fixed, IInv, ControlInv
<1>8. ASSUME NEW t \in Threads, Inherit(t) PROVE TypeOK'
  BY <1>8 DEF Inherit, Give, LooksAfter, Fixed, IInv, ControlInv
<1>9. ASSUME NEW t \in Threads, InheritNothing(t) PROVE TypeOK'
  BY <1>9 DEF InheritNothing, LooksAfter, Fixed, IInv, ControlInv
<1>10. ASSUME NEW t \in Threads, Exchange(t) PROVE TypeOK'
  BY <1>10 DEF Exchange, Give, LooksAfter, MarkedAsWaiting, Fixed, IInv, ControlInv
<1>11. ASSUME NEW t \in Threads, Wait(t) PROVE TypeOK'
  BY <1>11 DEF Wait, GoTo, LooksAfter, Fixed, IInv, ControlInv
<1>12. ASSUME NEW t \in Threads, Timeout(t) PROVE TypeOK'
  BY <1>12 DEF Timeout, GoTo, Fixed, IInv, ControlInv
<1>13. ASSUME NEW t \in Threads, Woken(t) PROVE TypeOK'
  BY <1>13 DEF Woken, GoTo, Fixed, IInv, ControlInv
<1>14. ASSUME NEW t \in Threads, After(t) PROVE TypeOK'
  BY <1>14 DEF After, GoTo, Give, Fixed, IInv, ControlInv
<1>15. ASSUME NEW t \in Threads, AfterLost(t) PROVE TypeOK'
  BY <1>15 DEF AfterLost, GoTo, Fixed, IInv, ControlInv
<1>16. ASSUME NEW t \in Threads, Recall(t) PROVE TypeOK'
  BY <1>16 DEF Recall, GoTo, Fixed, IInv, ControlInv
<1>17. ASSUME NEW t \in Threads, Unlock(t) PROVE TypeOK'
  BY <1>17 DEF Unlock, GoTo, Fixed, IInv, ControlInv
<1>18. ASSUME NEW t \in Threads, Mark(t) PROVE TypeOK'
  BY <1>18 DEF Mark, GoTo, Lost, Fixed, IInv, ControlInv
<1>19. ASSUME NEW t \in Threads, Leave(t) PROVE TypeOK'
  BY <1>19 DEF Leave, GoTo, Fixed, IInv, ControlInv
<1>20. ASSUME NEW t \in Threads, SetEvent(t) PROVE TypeOK'
  BY <1>20 DEF SetEvent, GoTo, Fixed, IInv, ControlInv
<1>21. ASSUME NEW t \in Threads, DieEvent(t) PROVE TypeOK'
  BY <1>21 DEF DieEvent, GoTo, Fixed, IInv, ControlInv
<1>22. ASSUME NEW t \in Threads, Consistent(t) PROVE TypeOK'
  BY <1>22 DEF Consistent, Fixed, IInv, ControlInv
<1>23. ASSUME NEW t \in Threads, Die(t) PROVE TypeOK'
  BY <1>23 DEF Die, GoTo, IInv, ControlInv
<1>24. CASE UNCHANGED vars
  BY <1>24 DEF vars, IInv, ControlInv
<1> QED
  BY <1>1, <1>2, <1>3, <1>4, <1>5, <1>6, <1>7, <1>8, <1>9, <1>10, <1>11, <1>12, <1>13, <1>14, <1>15, <1>16, <1>17, <1>18, <1>19, <1>20, <1>21, <1>22, <1>23, <1>24
  DEF Next, Step, LockStep

\* No step gives the lock a second holder, or frees it under its holder.
LEMMA StepLocked == TypeOK /\ IInv /\ [Next]_vars => LockedInv'
<1> SUFFICES ASSUME TypeOK /\ IInv, [Next]_vars PROVE LockedInv'
  OBVIOUS
<1> USE DEF mutexVars, historyVars, Locking, Ops
<1>1. ASSUME NEW t \in Threads, NEW call \in Ops \ {"none"}, Call(t, call) PROVE LockedInv'
  BY <1>1 DEF Call, GoTo, TypeOK, IInv, LockedInv, Has, ControlInv, OwnerInv, StateInv
<1>2. ASSUME NEW t \in Threads, NeedInit(t) PROVE LockedInv'
  BY <1>2 DEF NeedInit, GoTo, StillStatic, TypeOK, IInv, LockedInv, Has, ControlInv, OwnerInv, StateInv
<1>3. ASSUME NEW t \in Threads, Check(t) PROVE LockedInv'
  BY <1>3 DEF Check, GoTo, Fixed, TypeOK, IInv, LockedInv, Has, ControlInv, OwnerInv, StateInv
<1>4. ASSUME NEW t \in Threads, FirstExchange(t) PROVE LockedInv'
  BY <1>4 DEF FirstExchange, GoTo, Give, Fixed, TypeOK, IInv, LockedInv, Has, ControlInv, OwnerInv, StateInv
<1>5. ASSUME NEW t \in Threads, FirstCompare(t) PROVE LockedInv'
  BY <1>5 DEF FirstCompare, GoTo, Give, Fixed, TypeOK, IInv, LockedInv, Has, ControlInv, OwnerInv, StateInv
<1>6. ASSUME NEW t \in Threads, LockAgain(t) PROVE LockedInv'
  BY <1>6 DEF LockAgain, GoTo, Fixed, TypeOK, IInv, LockedInv, Has, ControlInv, OwnerInv, StateInv
<1>7. ASSUME NEW t \in Threads, FirstFails(t) PROVE LockedInv'
  BY <1>7 DEF FirstFails, GoTo, Fixed, TypeOK, IInv, LockedInv, Has, ControlInv, OwnerInv, StateInv
<1>8. ASSUME NEW t \in Threads, Inherit(t) PROVE LockedInv'
  BY <1>8 DEF Inherit, Give, LooksAfter, Fixed, TypeOK, IInv, LockedInv, Has, ControlInv, OwnerInv, StateInv
<1>9. ASSUME NEW t \in Threads, InheritNothing(t) PROVE LockedInv'
  BY <1>9 DEF InheritNothing, LooksAfter, Fixed, TypeOK, IInv, LockedInv, Has, ControlInv, OwnerInv, StateInv
<1>10. ASSUME NEW t \in Threads, Exchange(t) PROVE LockedInv'
  BY <1>10 DEF Exchange, Give, LooksAfter, MarkedAsWaiting, Fixed, TypeOK, IInv, LockedInv, Has, ControlInv, OwnerInv, StateInv
<1>11. ASSUME NEW t \in Threads, Wait(t) PROVE LockedInv'
  BY <1>11 DEF Wait, GoTo, LooksAfter, Fixed, TypeOK, IInv, LockedInv, Has, ControlInv, OwnerInv, StateInv
<1>12. ASSUME NEW t \in Threads, Timeout(t) PROVE LockedInv'
  BY <1>12 DEF Timeout, GoTo, Fixed, TypeOK, IInv, LockedInv, Has, ControlInv, OwnerInv, StateInv
<1>13. ASSUME NEW t \in Threads, Woken(t) PROVE LockedInv'
  BY <1>13 DEF Woken, GoTo, Fixed, TypeOK, IInv, LockedInv, Has, ControlInv, OwnerInv, StateInv
<1>14. ASSUME NEW t \in Threads, After(t) PROVE LockedInv'
  BY <1>14 DEF After, GoTo, Give, Fixed, TypeOK, IInv, LockedInv, Has, ControlInv, OwnerInv, StateInv
<1>15. ASSUME NEW t \in Threads, AfterLost(t) PROVE LockedInv'
  BY <1>15 DEF AfterLost, GoTo, Fixed, TypeOK, IInv, LockedInv, Has, ControlInv, OwnerInv, StateInv
<1>16. ASSUME NEW t \in Threads, Recall(t) PROVE LockedInv'
  BY <1>16 DEF Recall, GoTo, Fixed, TypeOK, IInv, LockedInv, Has, ControlInv, OwnerInv, StateInv
<1>17. ASSUME NEW t \in Threads, Unlock(t) PROVE LockedInv'
  BY <1>17 DEF Unlock, GoTo, Fixed, TypeOK, IInv, LockedInv, Has, ControlInv, OwnerInv, StateInv
<1>18. ASSUME NEW t \in Threads, Mark(t) PROVE LockedInv'
  BY <1>18 DEF Mark, GoTo, Lost, Fixed, TypeOK, IInv, LockedInv, Has, ControlInv, OwnerInv, StateInv
<1>19. ASSUME NEW t \in Threads, Leave(t) PROVE LockedInv'
  BY <1>19 DEF Leave, GoTo, Fixed, TypeOK, IInv, LockedInv, Has, ControlInv, OwnerInv, StateInv
<1>20. ASSUME NEW t \in Threads, SetEvent(t) PROVE LockedInv'
  BY <1>20 DEF SetEvent, GoTo, Fixed, TypeOK, IInv, LockedInv, Has, ControlInv, OwnerInv, StateInv
<1>21. ASSUME NEW t \in Threads, DieEvent(t) PROVE LockedInv'
  BY <1>21 DEF DieEvent, GoTo, Fixed, TypeOK, IInv, LockedInv, Has, ControlInv, OwnerInv, StateInv
<1>22. ASSUME NEW t \in Threads, Consistent(t) PROVE LockedInv'
  BY <1>22 DEF Consistent, Fixed, TypeOK, IInv, LockedInv, Has, ControlInv, OwnerInv, StateInv
<1>23. ASSUME NEW t \in Threads, Die(t) PROVE LockedInv'
  BY <1>23 DEF Die, GoTo, TypeOK, IInv, LockedInv, Has, ControlInv, OwnerInv, StateInv
<1>24. CASE UNCHANGED vars
  BY <1>24 DEF vars, TypeOK, IInv, LockedInv, Has, ControlInv, OwnerInv, StateInv
<1> QED
  BY <1>1, <1>2, <1>3, <1>4, <1>5, <1>6, <1>7, <1>8, <1>9, <1>10, <1>11, <1>12, <1>13, <1>14, <1>15, <1>16, <1>17, <1>18, <1>19, <1>20, <1>21, <1>22, <1>23, <1>24
  DEF Next, Step, LockStep

\* A holder that is on its way out still holds.
LEMMA StepControl == TypeOK /\ IInv /\ [Next]_vars => ControlInv'
<1> SUFFICES ASSUME TypeOK /\ IInv, [Next]_vars PROVE ControlInv'
  OBVIOUS
<1> USE DEF mutexVars, historyVars, Locking, Ops
<1>1. ASSUME NEW t \in Threads, NEW call \in Ops \ {"none"}, Call(t, call) PROVE ControlInv'
  BY <1>1 DEF Call, GoTo, TypeOK, IInv, LockedInv, Has, ControlInv, OwnerInv, StateInv, Ops
<1>2. ASSUME NEW t \in Threads, NeedInit(t) PROVE ControlInv'
  BY <1>2 DEF NeedInit, GoTo, StillStatic, TypeOK, IInv, LockedInv, Has, ControlInv, OwnerInv, StateInv, Ops
<1>3. ASSUME NEW t \in Threads, Check(t) PROVE ControlInv'
  BY <1>3 DEF Check, GoTo, Fixed, TypeOK, IInv, LockedInv, Has, ControlInv, OwnerInv, StateInv, Ops
<1>4. ASSUME NEW t \in Threads, FirstExchange(t) PROVE ControlInv'
  BY <1>4 DEF FirstExchange, GoTo, Give, Fixed, TypeOK, IInv, LockedInv, Has, ControlInv, OwnerInv, StateInv, Ops
<1>5. ASSUME NEW t \in Threads, FirstCompare(t) PROVE ControlInv'
  BY <1>5 DEF FirstCompare, GoTo, Give, Fixed, TypeOK, IInv, LockedInv, Has, ControlInv, OwnerInv, StateInv, Ops
<1>6. ASSUME NEW t \in Threads, LockAgain(t) PROVE ControlInv'
  BY <1>6 DEF LockAgain, GoTo, Fixed, TypeOK, IInv, LockedInv, Has, ControlInv, OwnerInv, StateInv, Ops
<1>7. ASSUME NEW t \in Threads, FirstFails(t) PROVE ControlInv'
  BY <1>7 DEF FirstFails, GoTo, Fixed, TypeOK, IInv, LockedInv, Has, ControlInv, OwnerInv, StateInv, Ops
<1>8. ASSUME NEW t \in Threads, Inherit(t) PROVE ControlInv'
  BY <1>8 DEF Inherit, Give, LooksAfter, Fixed, TypeOK, IInv, LockedInv, Has, ControlInv, OwnerInv, StateInv, Ops
<1>9. ASSUME NEW t \in Threads, InheritNothing(t) PROVE ControlInv'
  BY <1>9 DEF InheritNothing, LooksAfter, Fixed, TypeOK, IInv, LockedInv, Has, ControlInv, OwnerInv, StateInv, Ops
<1>10. ASSUME NEW t \in Threads, Exchange(t) PROVE ControlInv'
  BY <1>10 DEF Exchange, Give, LooksAfter, MarkedAsWaiting, Fixed, TypeOK, IInv, LockedInv, Has, ControlInv, OwnerInv, StateInv, Ops
<1>11. ASSUME NEW t \in Threads, Wait(t) PROVE ControlInv'
  BY <1>11 DEF Wait, GoTo, LooksAfter, Fixed, TypeOK, IInv, LockedInv, Has, ControlInv, OwnerInv, StateInv, Ops
<1>12. ASSUME NEW t \in Threads, Timeout(t) PROVE ControlInv'
  BY <1>12 DEF Timeout, GoTo, Fixed, TypeOK, IInv, LockedInv, Has, ControlInv, OwnerInv, StateInv, Ops
<1>13. ASSUME NEW t \in Threads, Woken(t) PROVE ControlInv'
  BY <1>13 DEF Woken, GoTo, Fixed, TypeOK, IInv, LockedInv, Has, ControlInv, OwnerInv, StateInv, Ops
<1>14. ASSUME NEW t \in Threads, After(t) PROVE ControlInv'
  BY <1>14 DEF After, GoTo, Give, Fixed, TypeOK, IInv, LockedInv, Has, ControlInv, OwnerInv, StateInv, Ops
<1>15. ASSUME NEW t \in Threads, AfterLost(t) PROVE ControlInv'
  BY <1>15 DEF AfterLost, GoTo, Fixed, TypeOK, IInv, LockedInv, Has, ControlInv, OwnerInv, StateInv, Ops
<1>16. ASSUME NEW t \in Threads, Recall(t) PROVE ControlInv'
  BY <1>16 DEF Recall, GoTo, Fixed, TypeOK, IInv, LockedInv, Has, ControlInv, OwnerInv, StateInv, Ops
<1>17. ASSUME NEW t \in Threads, Unlock(t) PROVE ControlInv'
  BY <1>17 DEF Unlock, GoTo, Fixed, TypeOK, IInv, LockedInv, Has, ControlInv, OwnerInv, StateInv, Ops
<1>18. ASSUME NEW t \in Threads, Mark(t) PROVE ControlInv'
  BY <1>18 DEF Mark, GoTo, Lost, Fixed, TypeOK, IInv, LockedInv, Has, ControlInv, OwnerInv, StateInv, Ops
<1>19. ASSUME NEW t \in Threads, Leave(t) PROVE ControlInv'
  BY <1>19 DEF Leave, GoTo, Fixed, TypeOK, IInv, LockedInv, Has, ControlInv, OwnerInv, StateInv, Ops
<1>20. ASSUME NEW t \in Threads, SetEvent(t) PROVE ControlInv'
  BY <1>20 DEF SetEvent, GoTo, Fixed, TypeOK, IInv, LockedInv, Has, ControlInv, OwnerInv, StateInv, Ops
<1>21. ASSUME NEW t \in Threads, DieEvent(t) PROVE ControlInv'
  BY <1>21 DEF DieEvent, GoTo, Fixed, TypeOK, IInv, LockedInv, Has, ControlInv, OwnerInv, StateInv, Ops
<1>22. ASSUME NEW t \in Threads, Consistent(t) PROVE ControlInv'
  BY <1>22 DEF Consistent, Fixed, TypeOK, IInv, LockedInv, Has, ControlInv, OwnerInv, StateInv, Ops
<1>23. ASSUME NEW t \in Threads, Die(t) PROVE ControlInv'
  BY <1>23 DEF Die, GoTo, TypeOK, IInv, LockedInv, Has, ControlInv, OwnerInv, StateInv, Ops
<1>24. CASE UNCHANGED vars
  BY <1>24 DEF vars, TypeOK, IInv, LockedInv, Has, ControlInv, OwnerInv, StateInv, Ops
<1> QED
  BY <1>1, <1>2, <1>3, <1>4, <1>5, <1>6, <1>7, <1>8, <1>9, <1>10, <1>11, <1>12, <1>13, <1>14, <1>15, <1>16, <1>17, <1>18, <1>19, <1>20, <1>21, <1>22, <1>23, <1>24
  DEF Next, Step, LockStep

\* The owner and the count follow the holder.
LEMMA StepOwner == TypeOK /\ IInv /\ [Next]_vars => OwnerInv'
<1> SUFFICES ASSUME TypeOK /\ IInv, [Next]_vars PROVE OwnerInv'
  OBVIOUS
<1> USE DEF mutexVars, historyVars
<1>1. ASSUME NEW t \in Threads, NEW call \in Ops \ {"none"}, Call(t, call) PROVE OwnerInv'
  BY <1>1 DEF Call, GoTo, TypeOK, IInv, LockedInv, Has, ControlInv, OwnerInv, StateInv
<1>2. ASSUME NEW t \in Threads, NeedInit(t) PROVE OwnerInv'
  <2>1. CASE made
    BY <1>2, <2>1 DEF NeedInit, GoTo, StillStatic, TypeOK, IInv, OwnerInv
  <2>2. CASE ~made
    <3>1. \A u \in Threads : held[u] = 0
      BY <2>2 DEF TypeOK, IInv, LockedInv, Has
    <3> QED
      BY <1>2, <2>2, <3>1, MutexAssumption DEF NeedInit, GoTo, StillStatic, TypeOK, OwnerInv
  <2> QED
    BY <2>1, <2>2
<1>3. ASSUME NEW t \in Threads, Check(t) PROVE OwnerInv'
  BY <1>3 DEF Check, GoTo, Fixed, TypeOK, IInv, LockedInv, Has, ControlInv, OwnerInv, StateInv
<1>4. ASSUME NEW t \in Threads, FirstExchange(t) PROVE OwnerInv'
  BY <1>4 DEF FirstExchange, GoTo, Give, Fixed, TypeOK, IInv, LockedInv, Has, ControlInv, OwnerInv, StateInv
<1>5. ASSUME NEW t \in Threads, FirstCompare(t) PROVE OwnerInv'
  BY <1>5 DEF FirstCompare, GoTo, Give, Fixed, TypeOK, IInv, LockedInv, Has, ControlInv, OwnerInv, StateInv
<1>6. ASSUME NEW t \in Threads, LockAgain(t) PROVE OwnerInv'
  BY <1>6 DEF LockAgain, GoTo, Fixed, TypeOK, IInv, LockedInv, Has, ControlInv, OwnerInv, StateInv
<1>7. ASSUME NEW t \in Threads, FirstFails(t) PROVE OwnerInv'
  BY <1>7 DEF FirstFails, GoTo, Fixed, TypeOK, IInv, LockedInv, Has, ControlInv, OwnerInv, StateInv
<1>8. ASSUME NEW t \in Threads, Inherit(t) PROVE OwnerInv'
  BY <1>8 DEF Inherit, Give, LooksAfter, Fixed, TypeOK, IInv, LockedInv, Has, ControlInv, OwnerInv, StateInv
<1>9. ASSUME NEW t \in Threads, InheritNothing(t) PROVE OwnerInv'
  BY <1>9 DEF InheritNothing, LooksAfter, Fixed, TypeOK, IInv, LockedInv, Has, ControlInv, OwnerInv, StateInv
<1>10. ASSUME NEW t \in Threads, Exchange(t) PROVE OwnerInv'
  BY <1>10 DEF Exchange, Give, LooksAfter, MarkedAsWaiting, Fixed, TypeOK, IInv, LockedInv, Has, ControlInv, OwnerInv, StateInv
<1>11. ASSUME NEW t \in Threads, Wait(t) PROVE OwnerInv'
  BY <1>11 DEF Wait, GoTo, LooksAfter, Fixed, TypeOK, IInv, LockedInv, Has, ControlInv, OwnerInv, StateInv
<1>12. ASSUME NEW t \in Threads, Timeout(t) PROVE OwnerInv'
  BY <1>12 DEF Timeout, GoTo, Fixed, TypeOK, IInv, LockedInv, Has, ControlInv, OwnerInv, StateInv
<1>13. ASSUME NEW t \in Threads, Woken(t) PROVE OwnerInv'
  BY <1>13 DEF Woken, GoTo, Fixed, TypeOK, IInv, LockedInv, Has, ControlInv, OwnerInv, StateInv
<1>14. ASSUME NEW t \in Threads, After(t) PROVE OwnerInv'
  BY <1>14 DEF After, GoTo, Give, Fixed, TypeOK, IInv, LockedInv, Has, ControlInv, OwnerInv, StateInv
<1>15. ASSUME NEW t \in Threads, AfterLost(t) PROVE OwnerInv'
  BY <1>15 DEF AfterLost, GoTo, Fixed, TypeOK, IInv, LockedInv, Has, ControlInv, OwnerInv, StateInv
<1>16. ASSUME NEW t \in Threads, Recall(t) PROVE OwnerInv'
  BY <1>16 DEF Recall, GoTo, Fixed, TypeOK, IInv, LockedInv, Has, ControlInv, OwnerInv, StateInv
<1>17. ASSUME NEW t \in Threads, Unlock(t) PROVE OwnerInv'
  BY <1>17 DEF Unlock, GoTo, Fixed, TypeOK, IInv, LockedInv, Has, ControlInv, OwnerInv, StateInv
<1>18. ASSUME NEW t \in Threads, Mark(t) PROVE OwnerInv'
  BY <1>18 DEF Mark, GoTo, Lost, Fixed, TypeOK, IInv, LockedInv, Has, ControlInv, OwnerInv, StateInv
<1>19. ASSUME NEW t \in Threads, Leave(t) PROVE OwnerInv'
  <2>1. \A u \in Threads : held'[u] = 0
    BY <1>19 DEF Leave, GoTo, Fixed, TypeOK, IInv, LockedInv, Has, ControlInv
  <2> QED
    BY <1>19, <2>1, MutexAssumption DEF Leave, OwnerInv
<1>20. ASSUME NEW t \in Threads, SetEvent(t) PROVE OwnerInv'
  BY <1>20 DEF SetEvent, GoTo, Fixed, TypeOK, IInv, LockedInv, Has, ControlInv, OwnerInv, StateInv
<1>21. ASSUME NEW t \in Threads, DieEvent(t) PROVE OwnerInv'
  BY <1>21 DEF DieEvent, GoTo, Fixed, TypeOK, IInv, LockedInv, Has, ControlInv, OwnerInv, StateInv
<1>22. ASSUME NEW t \in Threads, Consistent(t) PROVE OwnerInv'
  BY <1>22 DEF Consistent, Fixed, TypeOK, IInv, LockedInv, Has, ControlInv, OwnerInv, StateInv
<1>23. ASSUME NEW t \in Threads, Die(t) PROVE OwnerInv'
  BY <1>23 DEF Die, GoTo, TypeOK, IInv, LockedInv, Has, ControlInv, OwnerInv, StateInv
<1>24. CASE UNCHANGED vars
  BY <1>24 DEF vars, TypeOK, IInv, LockedInv, Has, ControlInv, OwnerInv, StateInv
<1> QED
  BY <1>1, <1>2, <1>3, <1>4, <1>5, <1>6, <1>7, <1>8, <1>9, <1>10, <1>11, <1>12, <1>13, <1>14, <1>15, <1>16, <1>17, <1>18, <1>19, <1>20, <1>21, <1>22, <1>23, <1>24
  DEF Next, Step, LockStep

\* The state of a robust mutex says whether its data is whole.
LEMMA StepState == TypeOK /\ IInv /\ [Next]_vars => StateInv'
<1> SUFFICES ASSUME TypeOK /\ IInv, [Next]_vars PROVE StateInv'
  OBVIOUS
<1> USE DEF mutexVars, historyVars
<1>1. ASSUME NEW t \in Threads, NEW call \in Ops \ {"none"}, Call(t, call) PROVE StateInv'
  BY <1>1 DEF Call, GoTo, TypeOK, IInv, LockedInv, Has, ControlInv, OwnerInv, StateInv
<1>2. ASSUME NEW t \in Threads, NeedInit(t) PROVE StateInv'
  BY <1>2 DEF NeedInit, GoTo, StillStatic, TypeOK, IInv, LockedInv, Has, ControlInv, OwnerInv, StateInv
<1>3. ASSUME NEW t \in Threads, Check(t) PROVE StateInv'
  BY <1>3 DEF Check, GoTo, Fixed, TypeOK, IInv, LockedInv, Has, ControlInv, OwnerInv, StateInv
<1>4. ASSUME NEW t \in Threads, FirstExchange(t) PROVE StateInv'
  BY <1>4 DEF FirstExchange, GoTo, Give, Fixed, TypeOK, IInv, LockedInv, Has, ControlInv, OwnerInv, StateInv
<1>5. ASSUME NEW t \in Threads, FirstCompare(t) PROVE StateInv'
  BY <1>5 DEF FirstCompare, GoTo, Give, Fixed, TypeOK, IInv, LockedInv, Has, ControlInv, OwnerInv, StateInv
<1>6. ASSUME NEW t \in Threads, LockAgain(t) PROVE StateInv'
  BY <1>6 DEF LockAgain, GoTo, Fixed, TypeOK, IInv, LockedInv, Has, ControlInv, OwnerInv, StateInv
<1>7. ASSUME NEW t \in Threads, FirstFails(t) PROVE StateInv'
  BY <1>7 DEF FirstFails, GoTo, Fixed, TypeOK, IInv, LockedInv, Has, ControlInv, OwnerInv, StateInv
<1>8. ASSUME NEW t \in Threads, Inherit(t) PROVE StateInv'
  BY <1>8 DEF Inherit, Give, LooksAfter, Fixed, TypeOK, IInv, LockedInv, Has, ControlInv, OwnerInv, StateInv
<1>9. ASSUME NEW t \in Threads, InheritNothing(t) PROVE StateInv'
  BY <1>9 DEF InheritNothing, LooksAfter, Fixed, TypeOK, IInv, LockedInv, Has, ControlInv, OwnerInv, StateInv
<1>10. ASSUME NEW t \in Threads, Exchange(t) PROVE StateInv'
  BY <1>10 DEF Exchange, Give, LooksAfter, MarkedAsWaiting, Fixed, TypeOK, IInv, LockedInv, Has, ControlInv, OwnerInv, StateInv
<1>11. ASSUME NEW t \in Threads, Wait(t) PROVE StateInv'
  BY <1>11 DEF Wait, GoTo, LooksAfter, Fixed, TypeOK, IInv, LockedInv, Has, ControlInv, OwnerInv, StateInv
<1>12. ASSUME NEW t \in Threads, Timeout(t) PROVE StateInv'
  BY <1>12 DEF Timeout, GoTo, Fixed, TypeOK, IInv, LockedInv, Has, ControlInv, OwnerInv, StateInv
<1>13. ASSUME NEW t \in Threads, Woken(t) PROVE StateInv'
  BY <1>13 DEF Woken, GoTo, Fixed, TypeOK, IInv, LockedInv, Has, ControlInv, OwnerInv, StateInv
<1>14. ASSUME NEW t \in Threads, After(t) PROVE StateInv'
  BY <1>14 DEF After, GoTo, Give, Fixed, TypeOK, IInv, LockedInv, Has, ControlInv, OwnerInv, StateInv
<1>15. ASSUME NEW t \in Threads, AfterLost(t) PROVE StateInv'
  BY <1>15 DEF AfterLost, GoTo, Fixed, TypeOK, IInv, LockedInv, Has, ControlInv, OwnerInv, StateInv
<1>16. ASSUME NEW t \in Threads, Recall(t) PROVE StateInv'
  BY <1>16 DEF Recall, GoTo, Fixed, TypeOK, IInv, LockedInv, Has, ControlInv, OwnerInv, StateInv
<1>17. ASSUME NEW t \in Threads, Unlock(t) PROVE StateInv'
  BY <1>17 DEF Unlock, GoTo, Fixed, TypeOK, IInv, LockedInv, Has, ControlInv, OwnerInv, StateInv
<1>18. ASSUME NEW t \in Threads, Mark(t) PROVE StateInv'
  BY <1>18 DEF Mark, GoTo, Lost, Fixed, TypeOK, IInv, LockedInv, Has, ControlInv, OwnerInv, StateInv
<1>19. ASSUME NEW t \in Threads, Leave(t) PROVE StateInv'
  BY <1>19 DEF Leave, GoTo, Fixed, TypeOK, IInv, LockedInv, Has, ControlInv, OwnerInv, StateInv
<1>20. ASSUME NEW t \in Threads, SetEvent(t) PROVE StateInv'
  BY <1>20 DEF SetEvent, GoTo, Fixed, TypeOK, IInv, LockedInv, Has, ControlInv, OwnerInv, StateInv
<1>21. ASSUME NEW t \in Threads, DieEvent(t) PROVE StateInv'
  BY <1>21 DEF DieEvent, GoTo, Fixed, TypeOK, IInv, LockedInv, Has, ControlInv, OwnerInv, StateInv
<1>22. ASSUME NEW t \in Threads, Consistent(t) PROVE StateInv'
  BY <1>22 DEF Consistent, Fixed, TypeOK, IInv, LockedInv, Has, ControlInv, OwnerInv, StateInv
<1>23. ASSUME NEW t \in Threads, Die(t) PROVE StateInv'
  BY <1>23 DEF Die, GoTo, TypeOK, IInv, LockedInv, Has, ControlInv, OwnerInv, StateInv
<1>24. CASE UNCHANGED vars
  BY <1>24 DEF vars, TypeOK, IInv, LockedInv, Has, ControlInv, OwnerInv, StateInv
<1> QED
  BY <1>1, <1>2, <1>3, <1>4, <1>5, <1>6, <1>7, <1>8, <1>9, <1>10, <1>11, <1>12, <1>13, <1>14, <1>15, <1>16, <1>17, <1>18, <1>19, <1>20, <1>21, <1>22, <1>23, <1>24
  DEF Next, Step, LockStep

LEMMA InitInv == Init => TypeOK /\ IInv
<1> SUFFICES ASSUME Init PROVE TypeOK /\ IInv
  OBVIOUS
<1>1. TypeOK
  BY DEF Init, TypeOK, Ops, Kinds, Locking, Unlocking
<1>2. LockedInv /\ ControlInv
  BY <1>1 DEF Init, LockedInv, ControlInv, Has, TypeOK, Locking
<1>3. OwnerInv
  BY MutexAssumption, <1>1 DEF Init, OwnerInv, TypeOK
<1>4. StateInv
  BY Zenon DEF Init, StateInv
<1> QED
  BY <1>1, <1>2, <1>3, <1>4 DEF IInv

-----------------------------------------------------------------------------

LEMMA Invariant == Spec => [](TypeOK /\ IInv)
<1>1. TypeOK /\ IInv /\ [Next]_vars => (TypeOK /\ IInv)'
  BY StepType, StepLocked, StepControl, StepOwner, StepState DEF IInv
<1> QED
  BY <1>1, InitInv, PTL DEF Spec

\* The variables of the mutex and of the calls keep their types.
THEOREM TypeCorrect == Spec => []TypeOK
  BY Invariant, PTL

\* Locked by lock, timedlock or trylock, inherited or not, a mutex has one
\* holder at a time.
THEOREM OneHolder == Spec => []MutualExclusion
<1>1. TypeOK /\ IInv => MutualExclusion
  BY DEF IInv, LockedInv, Has, MutualExclusion
<1> QED
  BY <1>1, Invariant, PTL

\* recursive_count is the number of unlocks that the owner owes.
THEOREM RecursionCounted == Spec => []CountsTheLocks
<1>1. TypeOK /\ IInv => CountsTheLocks
  BY DEF IInv, OwnerInv, CountsTheLocks
<1> QED
  BY <1>1, Invariant, PTL

\* Who is given a lock without EOWNERDEAD finds data that is whole, unless the
\* mutex was lost during the call.
THEOREM Unwarned == Spec => []UnwarnedIsClean
<1>1. TypeOK /\ IInv => UnwarnedIsClean
  BY DEF IInv, LockedInv, StateInv, Has, UnwarnedIsClean, TypeOK
<1> QED
  BY <1>1, Invariant, PTL
=============================================================================
