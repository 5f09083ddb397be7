---------------------------- MODULE ControlProofs ----------------------------
(***************************************************************************)
(* Proofs about a control: its layout and its events.                      *)
(*                                                                         *)
(* LayoutProperty: for any containers and values, an axis is never set     *)
(* three times, private.parent is the superview, and the constraints in    *)
(* force are those that private.constraints holds.                         *)
(*                                                                         *)
(* EventTarget: for any functions and any depth of nested fires, a fire    *)
(* reaches those who listened when it began, and the array holds what was  *)
(* registered.                                                             *)
(***************************************************************************)
EXTENDS LayoutProperty, EventTarget, FiniteSetTheorems, SequenceTheorems, TLAPS

\* The invariant of one slot of a control whose parent is par: what is in
\* force is held, and installed on a parent that does layout.
Live(s) == s.constraint # NoConstraint /\ s.constraint.live

SlotOK(s, par) ==
  /\ s \in Slots
  /\ s.inForce = IF Live(s) THEN 1 ELSE 0
  /\ Live(s) => s.constraint.owner = par /\ par \notin Ignoring

IInv ==
  /\ TypeOK
  /\ Exclusion
  /\ ParentIsSuperview
  /\ \A p \in Properties : SlotOK(slot[p], parent)

\* A constraint that addLayoutConstraint builds is one.
LEMMA LayoutType ==
  ASSUME NEW p \in Properties, NEW v \in Values, NEW par \in Containers
  PROVE  LayoutOf(p, v, par) \in Layouts
BY DEF LayoutOf, Layouts, Values

\* A held constraint is a constraint.
LEMMA HeldType ==
  ASSUME NEW s \in Slots, s.constraint # NoConstraint
  PROVE  s.constraint \in Constraints
BY DEF Slots

\* removeLayoutConstraint leaves none of the property's constraints in force.
LEMMA RemoveFromZero ==
  ASSUME NEW s, NEW par, SlotOK(s, par)
  PROVE  RemoveFrom(par, s) = 0
<1>1. CASE Live(s)
  BY <1>1 DEF SlotOK, RemoveFrom, Live
<1>2. CASE ~Live(s)
  BY <1>2 DEF SlotOK, RemoveFrom, Live
<1> QED BY <1>1, <1>2

\* changeLayoutConstraint where it makes do with a new constant.
LEMMA AdjustedSlot ==
  ASSUME NEW s \in Slots, NEW p \in Properties, NEW v \in Values, NEW par \in Containers \ Ignoring,
         Adjustable(s.constraint, LayoutOf(p, v, par))
  PROVE  LET r == SetSlot(s, p, v, par) IN
         /\ s.constraint # NoConstraint
         /\ r \in Slots /\ r.constraint # NoConstraint
         /\ r.constraint.live = s.constraint.live /\ r.constraint.owner = s.constraint.owner
         /\ r.constraint.layout.multiplier = LayoutOf(p, v, par).multiplier
         /\ r.constraint.layout.constant = LayoutOf(p, v, par).constant
         /\ r.constraint.layout.secondItem = LayoutOf(p, v, par).secondItem <=> ~r.astray
         /\ r.inForce = s.inForce
<1> DEFINE layout == LayoutOf(p, v, par)
           c == [s.constraint EXCEPT !.layout.constant = layout.constant]
           strays == s.constraint.layout.secondItem # layout.secondItem
<1>1. layout \in Layouts
  BY LayoutType
<1>2. SetSlot(s, p, v, par) = [constraint |-> c, inForce |-> s.inForce, astray |-> strays]
  BY ContainersAssumption, ValuesAssumption DEF SetSlot, Values
<1>3. Adjustable(s.constraint, layout)
  OBVIOUS
<1> HIDE DEF layout
<1>4. /\ s.constraint \in Constraints /\ s.constraint # NoConstraint
      /\ s.constraint.layout.multiplier = layout.multiplier
  BY <1>3, HeldType DEF Adjustable
<1>5. /\ c \in Constraints /\ c.live = s.constraint.live /\ c.owner = s.constraint.owner
      /\ c.layout.multiplier = layout.multiplier /\ c.layout.constant = layout.constant
      /\ c.layout.secondItem = s.constraint.layout.secondItem
  BY <1>1, <1>4 DEF Constraints, Layouts
<1>6. strays \in BOOLEAN /\ (c.layout.secondItem = layout.secondItem <=> ~strays)
  BY <1>5
<1>7. c # NoConstraint
  BY <1>5, ConstraintAssumption
<1> HIDE DEF c, strays
<1>8. /\ SetSlot(s, p, v, par) \in Slots /\ SetSlot(s, p, v, par).constraint = c
      /\ SetSlot(s, p, v, par).inForce = s.inForce /\ SetSlot(s, p, v, par).astray = strays
  BY <1>2, <1>5, <1>6 DEF Slots
<1> QED BY <1>4, <1>5, <1>6, <1>7, <1>8 DEF layout

\* addLayoutConstraint, in place of what was there.
LEMMA ReplacedSlot ==
  ASSUME NEW s, NEW p \in Properties, NEW v \in Values, NEW par \in Containers \ Ignoring,
         SlotOK(s, par), ~Adjustable(s.constraint, LayoutOf(p, v, par))
  PROVE  LET c == [layout |-> LayoutOf(p, v, par), owner |-> par, live |-> TRUE] IN
         /\ c \in Constraints /\ c # NoConstraint
         /\ SetSlot(s, p, v, par) = [constraint |-> c, inForce |-> 1, astray |-> FALSE]
<1> DEFINE c == [layout |-> LayoutOf(p, v, par), owner |-> par, live |-> TRUE]
<1>1. SetSlot(s, p, v, par) =
        [constraint |-> c, inForce |-> RemoveFrom(par, s) + 1, astray |-> FALSE]
  BY ContainersAssumption, ValuesAssumption DEF SetSlot, Values
<1>2. RemoveFrom(par, s) + 1 = 1
  BY RemoveFromZero
<1>3. c \in Constraints
  BY LayoutType DEF Constraints
<1>4. c # NoConstraint
  BY <1>3, ConstraintAssumption
<1> QED BY <1>1, <1>2, <1>3, <1>4, Zenon

\* The setter keeps the invariant of its slot.
LEMMA SetSlotOK ==
  ASSUME NEW s, NEW p \in Properties, NEW v \in Values \cup {NoValue},
         NEW par \in Containers \cup {NoParent}, SlotOK(s, par)
  PROVE  SlotOK(SetSlot(s, p, v, par), par)
<1>s. s \in Slots
  BY DEF SlotOK
<1>1. CASE v = NoValue
  <2>1. SetSlot(s, p, v, par) = [constraint |-> NoConstraint, inForce |-> 0, astray |-> FALSE]
    BY <1>1, RemoveFromZero DEF SetSlot
  <2> QED BY <2>1 DEF SlotOK, Slots, Live
<1>2. CASE v # NoValue /\ par = NoParent
  <2>1. SetSlot(s, p, v, par) = s
    BY <1>2, ContainersAssumption DEF SetSlot
  <2> QED BY <2>1
<1>3. CASE v # NoValue /\ par # NoParent /\ par \in Ignoring
  <2>1. SetSlot(s, p, v, par) = [s EXCEPT !.constraint = NoConstraint, !.astray = FALSE]
    BY <1>3, ContainersAssumption DEF SetSlot
  <2>2. s.inForce = 0
    BY <1>3 DEF SlotOK
  <2> QED BY <2>1, <2>2, <1>s DEF SlotOK, Slots, Live
<1>4. CASE v # NoValue /\ par # NoParent /\ par \notin Ignoring
  <2>1. par \in Containers \ Ignoring /\ v \in Values
    BY <1>4
  <2>2. CASE Adjustable(s.constraint, LayoutOf(p, v, par))
    BY <1>s, <2>1, <2>2, AdjustedSlot DEF SlotOK, Live
  <2>3. CASE ~Adjustable(s.constraint, LayoutOf(p, v, par))
    <3> DEFINE c == [layout |-> LayoutOf(p, v, par), owner |-> par, live |-> TRUE]
    <3>1. /\ c \in Constraints /\ c # NoConstraint
          /\ SetSlot(s, p, v, par) = [constraint |-> c, inForce |-> 1, astray |-> FALSE]
      BY <2>1, <2>3, ReplacedSlot
    <3>2. c.live /\ c.owner = par
      OBVIOUS
    <3> HIDE DEF c
    <3> QED BY <3>1, <3>2, <1>4 DEF SlotOK, Slots, Live
  <2> QED BY <2>2, <2>3
<1> QED BY <1>1, <1>2, <1>3, <1>4

\* A slot whose view has left its superview suits any parent.
LEMMA LeaveOK ==
  ASSUME NEW s \in Slots, NEW par
  PROVE  SlotOK(Leave(s), par) /\ ~Live(Leave(s))
<1>1. CASE s.constraint = NoConstraint
  BY <1>1 DEF Leave, SlotOK, Slots, Live
<1>2. CASE s.constraint # NoConstraint
  <2>1. s.constraint \in Constraints
    BY <1>2, HeldType
  <2> DEFINE c == [s.constraint EXCEPT !.live = FALSE]
  <2>2. c \in Constraints /\ ~c.live
    BY <2>1 DEF Constraints
  <2>3. c # NoConstraint
    BY <2>2, ConstraintAssumption
  <2>4. Leave(s) = [constraint |-> c, inForce |-> 0, astray |-> s.astray]
    BY <1>2 DEF Leave
  <2> HIDE DEF c
  <2> QED BY <2>2, <2>3, <2>4 DEF SlotOK, Slots, Live
<1> QED BY <1>1, <1>2

LEMMA InitIInv == Init => IInv
<1> SUFFICES ASSUME Init PROVE IInv
  OBVIOUS
<1> USE DEF Init
<1>1. \A p \in Properties : SlotOK(slot[p], parent)
  BY DEF SlotOK, Slots, Live
<1>2. slot \in [Properties -> Slots]
  BY DEF Slots
<1>z. 0 \in 0 .. MaxChildren
  BY BoundAssumption
<1>3. TypeOK
  BY <1>2, <1>z, Zenon DEF TypeOK
<1>4. Exclusion
  BY DEF Exclusion, Properties
<1> QED BY <1>1, <1>3, <1>4 DEF IInv, ParentIsSuperview

LEMMA NextIInv == IInv /\ [Next]_vars => IInv'
<1> SUFFICES ASSUME IInv, [Next]_vars PROVE IInv'
  OBVIOUS
<1>t. TypeOK
  BY DEF IInv
<1>s. \A p \in Properties : SlotOK(slot[p], parent)
  BY DEF IInv
<1>1. ASSUME NEW p \in Properties, NEW v \in Values \cup {NoValue}, Set(p, v)
      PROVE  IInv'
  <2> USE <1>1 DEF Set
  <2>1. user' \in [Properties -> Values \cup {NoValue}] /\ hooked' \subseteq Properties
    BY <1>t DEF TypeOK
  <2>2. Exclusion'
    \* some other property of the axis is null, or the axis had the room
    <3>1. PICK q \in Properties \ {p} : user[q] = NoValue
      BY DEF Excluded
    <3>2. user'[q] = NoValue
      BY <3>1, <1>t DEF TypeOK
    <3> QED BY <3>1, <3>2 DEF Exclusion
  <2>3. SlotOK(SetSlot(slot[p], p, v, parent), parent)
    BY <1>s, <1>t, SetSlotOK DEF TypeOK
  <2>4. \A q \in Properties : SlotOK(slot'[q], parent')
    BY <2>3, <1>s, <1>t DEF TypeOK
  <2>5. slot' \in [Properties -> Slots]
    BY <2>3, <1>t DEF TypeOK, SlotOK
  <2> QED BY <2>1, <2>2, <2>4, <2>5, <1>t DEF IInv, TypeOK, ParentIsSuperview
<1>2. ASSUME NEW c \in Containers, appendChild(c)
      PROVE  IInv'
  <2>e. user' = user /\ hooked' = hooked /\ Exclusion'
    BY <1>2 DEF appendChild, IInv, Exclusion
  <2>h. disciplined' \in BOOLEAN /\ reattached' \in BOOLEAN
    BY <1>2 DEF appendChild
  <2>1. CASE \E p \in hooked : Excluded(p) /\ exited' = TRUE
    <3>1. UNCHANGED <<parent, superview, children, slot>> /\ exited' = TRUE
      BY <2>1, <1>2 DEF appendChild
    <3> QED BY <3>1, <2>e, <2>h, <1>t, <1>s DEF IInv, TypeOK, ParentIsSuperview
  <2>2. CASE ~(\E p \in hooked : Excluded(p) /\ exited' = TRUE)
    <3>1. /\ children' = [children EXCEPT ![c] = @ + 1]
          /\ children[c] < MaxChildren
          /\ superview' = c /\ parent' = c /\ exited' = exited
      BY <2>2, <1>2 DEF appendChild
    <3>2. PICK left \in {TRUE, superview # c} :
            slot' = [p \in Properties |->
                       Hooked(p, IF left THEN Leave(slot[p]) ELSE slot[p], c)]
      BY <2>2, <1>2 DEF appendChild
    <3>3. ASSUME NEW p \in Properties
          PROVE  SlotOK(slot'[p], c)
      <4> DEFINE s == IF left THEN Leave(slot[p]) ELSE slot[p]
      <4>1. SlotOK(s, c)
        <5>1. CASE left
          BY <5>1, LeaveOK, <1>t DEF TypeOK
        <5>2. CASE ~left
          BY <5>2, <3>2, <1>s DEF IInv, ParentIsSuperview
        <5> QED BY <5>1, <5>2
      <4>2. slot'[p] = Hooked(p, s, c)
        BY <3>2
      <4> HIDE DEF s
      <4>3. user[p] \in Values \cup {NoValue}
        BY <1>t DEF TypeOK
      <4> QED BY <4>1, <4>2, <4>3, SetSlotOK DEF Hooked
    <3>4. slot' \in [Properties -> Slots]
      BY <3>2, <3>3 DEF SlotOK
    <3>5. children' \in [Containers -> 0 .. MaxChildren]
      BY <3>1, <1>t, BoundAssumption DEF TypeOK
    <3> QED BY <3>1, <3>3, <3>4, <3>5, <2>e, <2>h, <1>t DEF IInv, TypeOK, ParentIsSuperview
  <2> QED BY <2>1, <2>2
<1>3. ASSUME NEW c \in Containers, removeChild(c)
      PROVE  IInv'
  <2> USE <1>3 DEF removeChild
  <2>1. \A p \in Properties : SlotOK(slot'[p], parent')
    BY LeaveOK, <1>t DEF TypeOK
  <2>2. slot' \in [Properties -> Slots]
    BY <2>1 DEF SlotOK
  <2>3. children' \in [Containers -> 0 .. MaxChildren]
    BY <1>t, BoundAssumption DEF TypeOK
  <2> QED BY <2>1, <2>2, <2>3, <1>t DEF IInv, TypeOK, Exclusion, ParentIsSuperview
<1>4. ASSUME moveAbove
      PROVE  IInv'
  <2> USE <1>4 DEF moveAbove
  <2>1. ASSUME NEW p \in Properties
        PROVE  SlotOK(slot'[p], parent')
    <3>1. CASE slot[p].constraint = NoConstraint
      BY <3>1, <1>s
    <3>2. CASE slot[p].constraint # NoConstraint
      <4> DEFINE s == [Leave(slot[p]) EXCEPT !.constraint = NoConstraint]
      <4>1. SlotOK(s, parent)
        BY LeaveOK, <1>t DEF TypeOK, SlotOK, Slots, Live, Leave
      <4>2. slot'[p] = SetSlot(s, p, user[p], parent)
        BY <3>2
      <4> HIDE DEF s
      <4> QED BY <4>1, <4>2, <1>t, SetSlotOK DEF TypeOK
    <3> QED BY <3>1, <3>2
  <2>2. slot' \in [Properties -> Slots]
    BY <2>1 DEF SlotOK
  <2> QED BY <2>1, <2>2, <1>t DEF IInv, TypeOK, Exclusion, ParentIsSuperview
<1>5. CASE UNCHANGED vars
  BY <1>5, <1>s DEF IInv, TypeOK, Exclusion, ParentIsSuperview, vars
<1> QED BY <1>1, <1>2, <1>3, <1>4, <1>5 DEF Next

\* createLayoutProperty: no sequence of calls sets all the properties of an axis.
THEOREM ExclusionHolds == Spec => []Exclusion
<1>1. IInv => Exclusion
  BY DEF IInv
<1> QED BY InitIInv, NextIInv, <1>1, PTL DEF Spec

\* Container and Control keep their types.
THEOREM TypeCorrect == Spec => []TypeOK
<1>1. IInv => TypeOK
  BY DEF IInv
<1> QED BY InitIInv, NextIInv, <1>1, PTL DEF Spec

\* addLayoutConstraint and removeLayoutConstraint, through every move of the
\* control: what is in force is exactly what private.constraints holds.
THEOREM ConstraintsHeld == Spec => []OneInForce
<1>1. IInv => OneInForce
  BY DEF IInv, OneInForce, SlotOK, Live
<1> QED BY InitIInv, NextIInv, <1>1, PTL DEF Spec
-----------------------------------------------------------------------------
(***************************************************************************)
(* The trees.                                                              *)
(***************************************************************************)

LEMMA StepTreesAgree ==
  ASSUME IInv, TreesAgree, [Next]_vars
  PROVE  TreesAgree'
<1> USE ContainersAssumption
<1>1. ParentIsSuperview'
  BY NextIInv DEF IInv
<1>2. SUFFICES ASSUME disciplined', NEW d \in Containers
               PROVE  children'[d] = IF d = parent' THEN 1 ELSE 0
  BY <1>1 DEF TreesAgree
<1>t. children \in [Containers -> 0 .. MaxChildren]
  BY DEF IInv, TypeOK
<1>3. ASSUME NEW c \in Containers, appendChild(c)
      PROVE  children'[d] = IF d = parent' THEN 1 ELSE 0
  <2>1. disciplined /\ parent = NoParent
    BY <1>2, <1>3 DEF appendChild
  <2>2. children[d] = 0
    BY <2>1 DEF TreesAgree
  <2>3. CASE UNCHANGED <<parent, children>>
    BY <2>1, <2>2, <2>3
  <2>4. CASE children' = [children EXCEPT ![c] = @ + 1] /\ parent' = c
    BY <2>2, <2>4, <1>t
  <2> QED BY <1>3, <2>3, <2>4 DEF appendChild
<1>4. ASSUME NEW c \in Containers, removeChild(c)
      PROVE  children'[d] = IF d = parent' THEN 1 ELSE 0
  <2>1. disciplined /\ c = parent /\ parent' = NoParent
        /\ children' = [children EXCEPT ![c] = IF @ = 0 THEN 0 ELSE @ - 1]
    BY <1>2, <1>4 DEF removeChild
  <2>2. children[d] = IF d = c THEN 1 ELSE 0
    BY <2>1 DEF TreesAgree
  <2> QED BY <2>1, <2>2, <1>t
<1>5. ASSUME UNCHANGED <<disciplined, children, parent>>
      PROVE  children'[d] = IF d = parent' THEN 1 ELSE 0
  BY <1>2, <1>5 DEF TreesAgree
<1> QED BY <1>3, <1>4, <1>5 DEF Next, Set, moveAbove, vars

\* Container.appendChild and removeChild: private.parent, the native superview
\* and private.children agree.
THEOREM TreesKept == Spec => []TreesAgree
<1>1. Init => TreesAgree
  BY ContainersAssumption DEF Init, TreesAgree, ParentIsSuperview
<1>2. IInv /\ TreesAgree /\ [Next]_vars => TreesAgree'
  BY StepTreesAgree
<1> QED BY InitIInv, NextIInv, <1>1, <1>2, PTL DEF Spec

-----------------------------------------------------------------------------
(***************************************************************************)
(* What is in force agrees with the values.                                *)
(***************************************************************************)

\* A live constraint of p has the multiplier and the constant of the value v in
\* the parent par, and its second item unless it has strayed.
ValueOK(s, p, v, par) ==
  Live(s) =>
    /\ v # NoValue
    /\ s.constraint.layout.multiplier = LayoutOf(p, v, par).multiplier
    /\ s.constraint.layout.constant = LayoutOf(p, v, par).constant
    /\ s.constraint.layout.secondItem = LayoutOf(p, v, par).secondItem <=> ~s.astray

ValuesInv == \A p \in Properties : ValueOK(slot[p], p, user[p], parent)

\* The setter leaves nothing else in force, whatever was there.
LEMMA SetSlotValue ==
  ASSUME NEW s, NEW p \in Properties, NEW v \in Values \cup {NoValue},
         NEW par \in Containers \cup {NoParent}, SlotOK(s, par)
  PROVE  ValueOK(SetSlot(s, p, v, par), p, v, par)
<1>s. s \in Slots
  BY DEF SlotOK
<1>1. CASE v = NoValue
  <2>1. SetSlot(s, p, v, par).constraint = NoConstraint
    BY <1>1 DEF SetSlot
  <2> QED BY <2>1 DEF ValueOK, Live
<1>2. CASE v # NoValue /\ par = NoParent
  <2>1. SetSlot(s, p, v, par) = s
    BY <1>2, ContainersAssumption DEF SetSlot
  <2>2. ~Live(s)
    BY <1>2, <1>s, HeldType, ContainersAssumption DEF SlotOK, Live, Constraints
  <2> QED BY <2>1, <2>2 DEF ValueOK
<1>3. CASE v # NoValue /\ par # NoParent /\ par \in Ignoring
  <2>1. SetSlot(s, p, v, par) = [s EXCEPT !.constraint = NoConstraint, !.astray = FALSE]
    BY <1>3, ContainersAssumption DEF SetSlot
  <2> QED BY <2>1, <1>s DEF ValueOK, Slots, Live
<1>4. CASE v # NoValue /\ par # NoParent /\ par \notin Ignoring
  <2>1. par \in Containers \ Ignoring /\ v \in Values
    BY <1>4
  <2>2. CASE Adjustable(s.constraint, LayoutOf(p, v, par))
    BY <1>s, <1>4, <2>1, <2>2, AdjustedSlot DEF ValueOK
  <2>3. CASE ~Adjustable(s.constraint, LayoutOf(p, v, par))
    <3>1. SetSlot(s, p, v, par) =
            [constraint |-> [layout |-> LayoutOf(p, v, par), owner |-> par, live |-> TRUE],
             inForce |-> 1, astray |-> FALSE]
      BY <2>1, <2>3, ReplacedSlot
    <3> QED BY <1>4, <3>1 DEF ValueOK
  <2> QED BY <2>2, <2>3
<1> QED BY <1>1, <1>2, <1>3, <1>4

LEMMA StepValuesInv ==
  ASSUME IInv, ValuesInv, [Next]_vars
  PROVE  ValuesInv'
<1>t. TypeOK /\ ParentIsSuperview /\ \A p \in Properties : SlotOK(slot[p], parent) /\ slot[p] \in Slots
  BY DEF IInv, SlotOK
<1>1. ASSUME NEW p \in Properties, NEW v \in Values \cup {NoValue}, Set(p, v)
      PROVE  ValuesInv'
  <2>1. ValueOK(SetSlot(slot[p], p, v, parent), p, v, parent)
    BY <1>t, SetSlotValue DEF TypeOK
  <2>2. /\ user' = [user EXCEPT ![p] = v] /\ slot' = [slot EXCEPT ![p] = SetSlot(@, p, v, parent)]
        /\ parent' = parent
    BY <1>1 DEF Set
  <2>3. /\ slot'[p] = SetSlot(slot[p], p, v, parent) /\ user'[p] = v
        /\ \A q \in Properties \ {p} : slot'[q] = slot[q] /\ user'[q] = user[q]
    BY <2>2, <1>t DEF TypeOK
  <2>4. ASSUME NEW q \in Properties PROVE ValueOK(slot'[q], q, user'[q], parent)
    <3>1. CASE q = p BY <3>1, <2>1, <2>3
    <3>2. CASE q # p BY <3>2, <2>3 DEF ValuesInv
    <3> QED BY <3>1, <3>2
  <2> QED BY <2>2, <2>4 DEF ValuesInv, ValueOK, Live, LayoutOf
<1>2. ASSUME NEW c \in Containers, appendChild(c)
      PROVE  ValuesInv'
  <2>u. user' = user
    BY <1>2 DEF appendChild
  <2>1. CASE slot' = slot /\ parent' = parent
    BY <2>1, <2>u DEF ValuesInv, ValueOK, Live, LayoutOf
  <2>2. ASSUME parent' = c, NEW left \in {TRUE, superview # c},
               slot' = [p \in Properties |->
                          Hooked(p, IF left THEN Leave(slot[p]) ELSE slot[p], c)]
        PROVE  ValuesInv'
    <3>1. ASSUME NEW p \in Properties
          PROVE  ValueOK(slot'[p], p, user[p], c)
      <4> DEFINE s == IF left THEN Leave(slot[p]) ELSE slot[p]
      <4>1. SlotOK(s, c) /\ ValueOK(s, p, user[p], c)
        <5>1. CASE left
          BY <5>1, LeaveOK, <1>t DEF ValueOK
        <5>2. CASE ~left
          BY <5>2, <2>2, <1>t DEF ParentIsSuperview, ValuesInv
        <5> QED BY <5>1, <5>2
      <4>2. slot'[p] = Hooked(p, s, c)
        BY <2>2
      <4> HIDE DEF s
      <4>3. user[p] \in Values \cup {NoValue}
        BY <1>t DEF TypeOK
      <4>4. ValueOK(SetSlot(s, p, user[p], c), p, user[p], c)
        BY <4>1, <4>3, SetSlotValue
      <4> QED BY <4>1, <4>2, <4>4 DEF Hooked
    <3> QED BY <2>2, <3>1, <2>u DEF ValuesInv, ValueOK, Live, LayoutOf
  <2> QED BY <1>2, <2>1, <2>2 DEF appendChild
<1>3. ASSUME NEW c \in Containers, removeChild(c)
      PROVE  ValuesInv'
  <2>1. \A p \in Properties : ~Live(slot'[p])
    BY <1>3, <1>t, LeaveOK DEF removeChild
  <2> QED BY <2>1 DEF ValuesInv, ValueOK, Live
<1>4. ASSUME moveAbove
      PROVE  ValuesInv'
  <2>1. ASSUME NEW p \in Properties
        PROVE  ValueOK(slot'[p], p, user[p], parent)
    <3>1. CASE slot[p].constraint = NoConstraint
      BY <3>1, <1>4 DEF moveAbove, ValuesInv
    <3>2. CASE slot[p].constraint # NoConstraint
      <4> DEFINE s == [Leave(slot[p]) EXCEPT !.constraint = NoConstraint]
      <4>1. SlotOK(s, parent)
        BY LeaveOK, <1>t DEF SlotOK, Slots, Live, Leave
      <4>2. slot'[p] = SetSlot(s, p, user[p], parent)
        BY <3>2, <1>4 DEF moveAbove
      <4> HIDE DEF s
      <4> QED BY <4>1, <4>2, <1>t, SetSlotValue DEF TypeOK
    <3> QED BY <3>1, <3>2
  <2>2. user' = user /\ parent' = parent
    BY <1>4 DEF moveAbove
  <2> QED BY <2>1, <2>2 DEF ValuesInv, ValueOK, Live, LayoutOf
<1>5. CASE UNCHANGED vars
  BY <1>5 DEF vars, ValuesInv, ValueOK, Live, LayoutOf
<1> QED BY <1>1, <1>2, <1>3, <1>4, <1>5 DEF Next

\* changeLayoutConstraint changes the constant only, and still no constraint is
\* in force but on the superview and with the multiplier and the constant of the
\* value the property has.  It has that value's second item exactly where
\* changeLayoutConstraint has not kept another.
THEOREM ValuesInForce == Spec => []InForceAgrees
<1>1. Init => ValuesInv
  BY DEF Init, ValuesInv, ValueOK, Live
<1>2. IInv /\ ValuesInv /\ [Next]_vars => ValuesInv'
  BY StepValuesInv
<1>3. IInv /\ ValuesInv => InForceAgrees
  BY DEF IInv, ParentIsSuperview, SlotOK, ValuesInv, ValueOK, Live, InForceAgrees, LayoutOf
<1> QED BY InitIInv, NextIInv, <1>1, <1>2, <1>3, PTL DEF Spec
-----------------------------------------------------------------------------
(***************************************************************************)
(* The first attachment.                                                   *)
(***************************************************************************)

\* A slot of the value v in a container that does layout, as long as nothing
\* was held when the control came there.
AppliedOK(s, v) ==
  /\ s.constraint # NoConstraint => s.constraint.live
  /\ v # NoValue => s.constraint # NoConstraint

AppliedInv ==
  /\ \A p \in Properties : user[p] # NoValue => p \in hooked
  /\ ~reattached /\ parent \notin Ignoring \cup {NoParent} =>
       \A p \in Properties : AppliedOK(slot[p], user[p])

\* Where every held constraint is in force, the setter adjusts none that is not.
LEMMA SetSlotApplies ==
  ASSUME NEW s, NEW p \in Properties, NEW v \in Values \cup {NoValue},
         NEW par \in Containers \ Ignoring, SlotOK(s, par),
         s.constraint # NoConstraint => s.constraint.live
  PROVE  AppliedOK(SetSlot(s, p, v, par), v)
<1>s. s \in Slots
  BY DEF SlotOK
<1>1. CASE v = NoValue
  <2>1. SetSlot(s, p, v, par).constraint = NoConstraint
    BY <1>1 DEF SetSlot
  <2> QED BY <1>1, <2>1 DEF AppliedOK
<1>2. CASE v # NoValue
  <2>1. v \in Values
    BY <1>2
  <2>2. CASE Adjustable(s.constraint, LayoutOf(p, v, par))
    BY <1>s, <2>1, <2>2, AdjustedSlot DEF AppliedOK
  <2>3. CASE ~Adjustable(s.constraint, LayoutOf(p, v, par))
    <3> DEFINE c == [layout |-> LayoutOf(p, v, par), owner |-> par, live |-> TRUE]
    <3>1. /\ c # NoConstraint /\ c.live
          /\ SetSlot(s, p, v, par) = [constraint |-> c, inForce |-> 1, astray |-> FALSE]
      BY <2>1, <2>3, ReplacedSlot
    <3> HIDE DEF c
    <3> QED BY <3>1 DEF AppliedOK
  <2> QED BY <2>2, <2>3
<1> QED BY <1>1, <1>2

LEMMA StepAppliedInv ==
  ASSUME IInv, AppliedInv, [Next]_vars
  PROVE  AppliedInv'
<1>t. TypeOK /\ ParentIsSuperview /\ \A p \in Properties : SlotOK(slot[p], parent) /\ slot[p] \in Slots
  BY DEF IInv, SlotOK
<1>h. \A p \in Properties : user[p] \in Values \cup {NoValue}
  BY <1>t DEF TypeOK
<1>1. ASSUME NEW p \in Properties, NEW v \in Values \cup {NoValue}, Set(p, v)
      PROVE  AppliedInv'
  <2>1. /\ user' = [user EXCEPT ![p] = v] /\ slot' = [slot EXCEPT ![p] = SetSlot(@, p, v, parent)]
        /\ hooked' = IF v = NoValue THEN hooked ELSE hooked \cup {p}
        /\ parent' = parent /\ reattached' = reattached
    BY <1>1 DEF Set
  <2>2. /\ slot'[p] = SetSlot(slot[p], p, v, parent) /\ user'[p] = v
        /\ \A q \in Properties \ {p} : slot'[q] = slot[q] /\ user'[q] = user[q]
    BY <2>1, <1>t DEF TypeOK
  <2>3. \A q \in Properties : user'[q] # NoValue => q \in hooked'
    BY <2>1, <2>2 DEF AppliedInv
  <2>4. ASSUME ~reattached, parent \notin Ignoring \cup {NoParent}, NEW q \in Properties
        PROVE  AppliedOK(slot'[q], user'[q])
    <3>1. CASE q = p
      <4>1. parent \in Containers \ Ignoring
        BY <2>4, <1>t DEF TypeOK
      <4>2. slot[p].constraint # NoConstraint => slot[p].constraint.live
        BY <2>4 DEF AppliedInv, AppliedOK
      <4>3. AppliedOK(SetSlot(slot[p], p, v, parent), v)
        BY <4>1, <4>2, <1>t, SetSlotApplies
      <4> QED BY <3>1, <4>3, <2>2
    <3>2. CASE q # p
      BY <3>2, <2>2, <2>4 DEF AppliedInv
    <3> QED BY <3>1, <3>2
  <2> QED BY <2>1, <2>3, <2>4 DEF AppliedInv, AppliedOK
<1>2. ASSUME NEW c \in Containers, appendChild(c)
      PROVE  AppliedInv'
  <2>1. /\ user' = user /\ hooked' = hooked
        /\ ~reattached' => ~reattached /\ \A p \in Properties : slot[p].constraint = NoConstraint
    BY <1>2, Zenon DEF appendChild
  <2>2. CASE parent' = parent /\ slot' = slot
    BY <2>1, <2>2 DEF AppliedInv, AppliedOK
  <2>3. ASSUME parent' = c, NEW left \in {TRUE, superview # c},
               slot' = [p \in Properties |->
                          Hooked(p, IF left THEN Leave(slot[p]) ELSE slot[p], c)]
        PROVE  AppliedInv'
    <3>1. ASSUME ~reattached', c \notin Ignoring \cup {NoParent}, NEW p \in Properties
          PROVE  AppliedOK(slot'[p], user[p])
      <4> DEFINE s == IF left THEN Leave(slot[p]) ELSE slot[p]
      <4>1. slot[p].constraint = NoConstraint
        BY <2>1, <3>1
      <4>2. SlotOK(s, c) /\ s.constraint = NoConstraint
        <5>1. CASE left
          BY <5>1, <4>1, LeaveOK, <1>t DEF Leave
        <5>2. CASE ~left
          BY <5>2, <4>1, <2>3, <1>t DEF ParentIsSuperview
        <5> QED BY <5>1, <5>2
      <4>3. slot'[p] = Hooked(p, s, c)
        BY <2>3
      <4> HIDE DEF s
      <4>4. CASE p \in hooked
        <5>1. AppliedOK(SetSlot(s, p, user[p], c), user[p])
          BY <3>1, <4>2, <1>h, SetSlotApplies
        <5> QED BY <4>3, <4>4, <5>1 DEF Hooked
      <4>5. CASE p \notin hooked
        BY <4>2, <4>3, <4>5 DEF Hooked, AppliedInv, AppliedOK
      <4> QED BY <4>4, <4>5
    <3> QED BY <2>1, <2>3, <3>1 DEF AppliedInv, AppliedOK
  <2> QED BY <1>2, <2>2, <2>3 DEF appendChild
<1>3. ASSUME NEW c \in Containers, removeChild(c)
      PROVE  AppliedInv'
  BY <1>3 DEF removeChild, AppliedInv
<1>4. ASSUME moveAbove
      PROVE  AppliedInv'
  <2>1. UNCHANGED <<user, hooked, parent, reattached>>
    BY <1>4 DEF moveAbove
  <2>2. ASSUME ~reattached, parent \notin Ignoring \cup {NoParent}, NEW p \in Properties
        PROVE  AppliedOK(slot'[p], user[p])
    <3>1. CASE slot[p].constraint = NoConstraint
      BY <3>1, <2>2, <1>4 DEF moveAbove, AppliedInv
    <3>2. CASE slot[p].constraint # NoConstraint
      <4> DEFINE s == [Leave(slot[p]) EXCEPT !.constraint = NoConstraint]
      <4>1. SlotOK(s, parent) /\ s.constraint = NoConstraint
        BY LeaveOK, <1>t DEF SlotOK, Slots, Live, Leave
      <4>2. slot'[p] = SetSlot(s, p, user[p], parent)
        BY <3>2, <1>4 DEF moveAbove
      <4> HIDE DEF s
      <4>3. parent \in Containers \ Ignoring
        BY <2>2, <1>t DEF TypeOK
      <4> QED BY <4>1, <4>2, <4>3, <1>h, SetSlotApplies
    <3> QED BY <3>1, <3>2
  <2> QED BY <2>1, <2>2 DEF AppliedInv, AppliedOK
<1>5. CASE UNCHANGED vars
  BY <1>5 DEF vars, AppliedInv, AppliedOK
<1> QED BY <1>1, <1>2, <1>3, <1>4, <1>5 DEF Next

\* createLayoutProperty and its listener on 'parent-attached': a value takes
\* effect at the first attachment, or at once after it, with the whole layout it
\* asks for, or all but the second item where changeLayoutConstraint kept one.
THEOREM FirstAttachment == Spec => []FirstAttachApplies
<1>1. Init => AppliedInv /\ ValuesInv
  BY DEF Init, AppliedInv, AppliedOK, ValuesInv, ValueOK, Live
<1>2. IInv /\ AppliedInv /\ ValuesInv /\ [Next]_vars => AppliedInv' /\ ValuesInv'
  BY StepAppliedInv, StepValuesInv
<1>3. IInv /\ AppliedInv /\ ValuesInv => FirstAttachApplies
  <2> DEFINE c(p) == slot[p].constraint
             wanted(p) == LayoutOf(p, user[p], parent)
  <2>1. ASSUME IInv, AppliedInv, ValuesInv, ~reattached, parent \notin Ignoring \cup {NoParent},
               NEW p \in Properties, user[p] # NoValue
        PROVE  /\ slot[p].inForce = 1
               /\ c(p) # NoConstraint
               /\ \/ c(p).layout = wanted(p)
                  \/ /\ slot[p].astray
                     /\ c(p).layout = [wanted(p) EXCEPT !.secondItem = c(p).layout.secondItem]
    <3>1. Live(slot[p]) /\ c(p) # NoConstraint
      BY <2>1 DEF AppliedInv, AppliedOK, Live
    <3>2. slot[p].inForce = 1 /\ slot[p] \in Slots
      BY <2>1, <3>1 DEF IInv, SlotOK
    <3>3. wanted(p) \in Layouts /\ c(p).layout \in Layouts
      <4>1. user[p] \in Values /\ parent \in Containers
        BY <2>1 DEF IInv, TypeOK
      <4> QED BY <3>1, <3>2, <4>1, LayoutType, HeldType DEF Constraints
    <3>4. /\ c(p).layout.multiplier = wanted(p).multiplier
          /\ c(p).layout.constant = wanted(p).constant
          /\ c(p).layout.secondItem = wanted(p).secondItem <=> ~slot[p].astray
      BY <2>1, <3>1 DEF ValuesInv, ValueOK
    <3> DEFINE w == wanted(p)  l == c(p).layout
    <3>5. /\ w \in Layouts /\ l \in Layouts /\ l.multiplier = w.multiplier /\ l.constant = w.constant
          /\ l.secondItem = w.secondItem <=> ~slot[p].astray
      BY <3>3, <3>4
    <3> HIDE DEF w, l
    <3>6. l = w \/ (slot[p].astray /\ l = [w EXCEPT !.secondItem = l.secondItem])
      BY <3>5 DEF Layouts
    <3> QED BY <3>1, <3>2, <3>6 DEF w, l
  <2> QED BY <2>1, Zenon DEF FirstAttachApplies
<1> QED BY InitIInv, NextIInv, <1>1, <1>2, <1>3, PTL DEF Spec
-----------------------------------------------------------------------------
(***************************************************************************)
(* The events of a control                                                 *)
(***************************************************************************)

Places(f) == {i \in DOMAIN listeners : listeners[i] = f}

\* A walk during which nothing was removed has called the first ones of those
\* that were there, and they are still the first ones of the array.
Undisturbed(fire, list) ==
  /\ fire.length = Len(fire.before)
  /\ Len(fire.before) <= Len(list)
  /\ \A j \in 1 .. Len(fire.before) : fire.before[j] = list[j]
  /\ Len(fire.called) = fire.index
  /\ \A j \in 1 .. fire.index : fire.called[j] = fire.before[j]

FireOK(fire, list) == fire.index <= fire.length /\ (fire.shrunk \/ Undisturbed(fire, list))

EventInv ==
  /\ EventTypeOK
  /\ \A i \in DOMAIN fires : FireOK(fires[i], listeners)
  /\ \A f \in Funcs : Cardinality(Places(f)) = registered[f]
  /\ listeners # <<>> => native > 0

LEMMA PlacesAreFinite ==
  ASSUME listeners \in Seq(Funcs), NEW f
  PROVE  /\ IsFiniteSet(Places(f))
         /\ Cardinality(Places(f)) \in 0 .. Len(listeners)
<1> DEFINE n == Len(listeners)
<1>1. IsFiniteSet(1 .. n) /\ Cardinality(1 .. n) = n /\ n \in Nat
  <2>1. n \in Nat
    OBVIOUS
  <2> HIDE DEF n
  <2> QED
    BY <2>1, FS_Interval
<1>2. Places(f) \subseteq 1 .. Len(listeners)
  BY DEF Places
<1>3. /\ IsFiniteSet(Places(f))
      /\ Cardinality(Places(f)) <= Cardinality(1 .. Len(listeners))
  BY <1>1, <1>2, FS_Subset, Zenon
<1>4. Cardinality(Places(f)) \in Nat
  BY <1>3, FS_CardinalityType
<1> QED
  BY <1>1, <1>3, <1>4

\* push adds one place, behind the others.
LEMMA PlacesOfAppend ==
  ASSUME listeners \in Seq(Funcs), NEW g \in Funcs, listeners' = Append(listeners, g), NEW f
  PROVE  Cardinality(Places(f)') = Cardinality(Places(f)) + (IF f = g THEN 1 ELSE 0)
<1>1. Places(f)' = IF f = g THEN Places(f) \cup {Len(listeners) + 1} ELSE Places(f)
  BY DEF Places
<1>2. Len(listeners) + 1 \notin Places(f)
  BY DEF Places
<1>3. IsFiniteSet(Places(f)) /\ Cardinality(Places(f)) \in Nat
  BY PlacesAreFinite
<1>4. Cardinality(Places(f) \cup {Len(listeners) + 1}) = Cardinality(Places(f)) + 1
  BY <1>2, <1>3, FS_AddElement
<1> QED
  BY <1>1, <1>3, <1>4

\* splice takes the element at k out and moves those behind it by one.
LEMMA Removed ==
  ASSUME listeners \in Seq(Funcs), NEW k \in 1 .. Len(listeners)
  PROVE  /\ RemoveAt(listeners, k) \in Seq(Funcs)
         /\ Len(RemoveAt(listeners, k)) = Len(listeners) - 1
         /\ \A i \in 1 .. Len(listeners) - 1 :
              RemoveAt(listeners, k)[i] = IF i < k THEN listeners[i] ELSE listeners[i + 1]
<1> DEFINE s == SubSeq(listeners, 1, k - 1)  t == SubSeq(listeners, k + 1, Len(listeners))
<1>1. /\ s \in Seq(Funcs) /\ Len(s) = k - 1
      /\ \A i \in 1 .. k - 1 : s[i] = listeners[i]
  <2> DEFINE m == k - 1
  <2>1. m \in Nat /\ \A i \in 1 .. m : listeners[i] \in Funcs
    OBVIOUS
  <2> HIDE DEF m
  <2>2. /\ SubSeq(listeners, 1, m) \in Seq(Funcs) /\ Len(SubSeq(listeners, 1, m)) = m
        /\ \A i \in 1 .. m : SubSeq(listeners, 1, m)[i] = listeners[i]
    BY <2>1, SubSeqProperties
  <2> QED
    BY <2>2 DEF m
<1>2. /\ t \in Seq(Funcs) /\ Len(t) = Len(listeners) - k
      /\ \A i \in 1 .. Len(listeners) - k : t[i] = listeners[k + i]
  <2> DEFINE a == k + 1  b == Len(listeners)
  <2>1. a \in Nat /\ b \in Nat /\ a <= b + 1 /\ \A i \in a .. b : listeners[i] \in Funcs
    OBVIOUS
  <2> HIDE DEF a, b
  <2>2. /\ SubSeq(listeners, a, b) \in Seq(Funcs) /\ Len(SubSeq(listeners, a, b)) = b - a + 1
        /\ \A i \in 1 .. b - a + 1 : SubSeq(listeners, a, b)[i] = listeners[a + i - 1]
    BY <2>1, SubSeqProperties
  <2>3. b - a + 1 = Len(listeners) - k
    BY <2>1 DEF a, b
  <2>4. ASSUME NEW i \in 1 .. Len(listeners) - k
        PROVE  SubSeq(listeners, a, b)[i] = listeners[k + i]
    <3>1. a + i - 1 = k + i
      BY DEF a
    <3>2. SubSeq(listeners, a, b)[i] = listeners[a + i - 1]
      BY <2>2, <2>3
    <3> QED
      BY <3>1, <3>2
  <2>5. /\ SubSeq(listeners, a, b) \in Seq(Funcs)
        /\ Len(SubSeq(listeners, a, b)) = Len(listeners) - k
    BY <2>2, <2>3, <2>1
  <2> QED
    BY <2>4, <2>5 DEF a, b
<1>3. RemoveAt(listeners, k) = s \o t
  BY DEF RemoveAt
<1> HIDE DEF s, t
<1>4. /\ s \o t \in Seq(Funcs) /\ Len(s \o t) = Len(s) + Len(t)
      /\ \A i \in 1 .. Len(s) + Len(t) : (s \o t)[i] = IF i <= Len(s) THEN s[i] ELSE t[i - Len(s)]
  BY <1>1, <1>2, ConcatProperties
<1> DEFINE n == Len(listeners)  r == s \o t
<1>5. n \in Nat /\ k \in 1 .. n /\ Len(s) + Len(t) = n - 1
  BY <1>1, <1>2
<1>6. ASSUME NEW i \in 1 .. n - 1
      PROVE  r[i] = IF i < k THEN listeners[i] ELSE listeners[i + 1]
  <2>1. i \in 1 .. Len(s) + Len(t)
    BY <1>5
  <2>2. r[i] = IF i <= Len(s) THEN s[i] ELSE t[i - Len(s)]
    BY <1>4, <2>1
  <2>3. CASE i < k
    <3>1. i \in 1 .. k - 1 /\ i <= Len(s)
      BY <1>1, <2>3
    <3> QED
      BY <1>1, <2>2, <2>3, <3>1
  <2>4. CASE ~(i < k)
    <3>1. i - Len(s) \in 1 .. n - k /\ k + (i - Len(s)) = i + 1 /\ ~(i <= Len(s))
      BY <1>1, <1>5, <2>4
    <3> QED
      BY <1>2, <2>2, <2>4, <3>1
  <2> QED
    BY <2>3, <2>4
<1> QED
  BY <1>3, <1>4, <1>5, <1>6

LEMMA PlacesOfRemoved ==
  ASSUME listeners \in Seq(Funcs), NEW k \in 1 .. Len(listeners),
         listeners' = RemoveAt(listeners, k), NEW f
  PROVE  Cardinality(Places(f)') = Cardinality(Places(f)) - (IF f = listeners[k] THEN 1 ELSE 0)
<1> DEFINE S == Places(f) \ {k}
           T == Places(f)'
           move == [i \in S |-> IF i < k THEN i ELSE i - 1]
<1>1. /\ DOMAIN listeners = 1 .. Len(listeners) /\ Len(listeners) \in Nat
      /\ DOMAIN listeners' = 1 .. Len(listeners) - 1
      /\ \A i \in 1 .. Len(listeners) - 1 :
           listeners'[i] = IF i < k THEN listeners[i] ELSE listeners[i + 1]
  BY Removed
<1>2. move \in [S -> T]
  <2> SUFFICES ASSUME NEW i \in S PROVE (IF i < k THEN i ELSE i - 1) \in T
    OBVIOUS
  <2>1. i \in 1 .. Len(listeners) /\ listeners[i] = f /\ i # k
    BY <1>1 DEF Places
  <2>2. CASE i < k
    BY <1>1, <2>1, <2>2 DEF Places
  <2>3. CASE i > k
    <3>1. /\ i - 1 \in 1 .. Len(listeners) - 1 /\ ~(i - 1 < k)
          /\ (i - 1) + 1 = i /\ ~(i < k)
      BY <1>1, <2>1, <2>3
    <3>2. listeners'[i - 1] = f
      BY <1>1, <2>1, <3>1
    <3> QED
      BY <1>1, <3>1, <3>2 DEF Places
  <2> QED
    BY <2>1, <2>2, <2>3
<1>3. \A i, j \in S : move[i] = move[j] => i = j
  BY <1>1 DEF Places
<1>4. \A j \in T : \E i \in S : move[i] = j
  <2> SUFFICES ASSUME NEW j \in T PROVE \E i \in S : move[i] = j
    OBVIOUS
  <2>1. j \in 1 .. Len(listeners) - 1 /\ listeners'[j] = f
    BY <1>1 DEF Places
  <2>2. CASE j < k
    <3>1. j \in S /\ move[j] = j
      BY <1>1, <2>1, <2>2 DEF Places
    <3> QED
      BY <3>1
  <2>3. CASE j >= k
    <3>1. j + 1 \in 1 .. Len(listeners) /\ j + 1 # k /\ ~(j + 1 < k) /\ (j + 1) - 1 = j
      BY <1>1, <2>1, <2>3
    <3>2. j + 1 \in S
      BY <1>1, <2>1, <2>3, <3>1 DEF Places
    <3>3. move[j + 1] = j
      BY <3>1, <3>2
    <3> QED
      BY <3>2, <3>3
  <2> QED
    BY <2>1, <2>2, <2>3
<1>5. IsFiniteSet(Places(f)) /\ Cardinality(Places(f)) \in Nat
  BY PlacesAreFinite
<1>6. /\ IsFiniteSet(S)
      /\ Cardinality(S) = IF k \in Places(f) THEN Cardinality(Places(f)) - 1 ELSE Cardinality(Places(f))
  BY <1>5, FS_RemoveElement
<1>7. k \in Places(f) <=> f = listeners[k]
  BY <1>1 DEF Places
<1> HIDE DEF S, T, move
<1>8. move \in Bijection(S, T)
  <2>1. IsInjective(move)
    BY <1>2, <1>3, Zenon DEF IsInjective
  <2> QED
    BY <1>2, <1>4, <2>1, Zenon DEF Bijection, Injection, Surjection
<1>9. Cardinality(T) = Cardinality(S)
  BY <1>6, <1>8, FS_Bijection DEF ExistsBijection
<1> QED
  BY <1>5, <1>6, <1>7, <1>9 DEF T

\* A nonempty set of numbers has a least one.
LEMMA Least ==
  ASSUME NEW T, T \subseteq Nat, T # {}
  PROVE  \E x \in T : \A y \in T : x <= y
<1> DEFINE R == OpToRel(<, Nat)
<1>1. IsWellFoundedOn(R, Nat)
  BY NatLessThanWellFounded
<1>2. ASSUME NEW x \in Nat, NEW y \in Nat, y < x PROVE <<y, x>> \in R
  BY <1>2 DEF OpToRel
<1> HIDE DEF R
<1>3. PICK x \in T : \A y \in T : ~ (<<y, x>> \in R)
  BY <1>1, WFMin, Zenon
<1>4. \A y \in T : ~ (y < x)
  BY <1>2, <1>3
<1> QED
  BY <1>4

LEMMA PlaceFound ==
  ASSUME listeners \in Seq(Funcs), NEW f \in Funcs
  PROVE  /\ FirstIndex(f) = 0 => Places(f) = {}
         /\ FirstIndex(f) # 0 => FirstIndex(f) \in 1 .. Len(listeners) /\ listeners[FirstIndex(f)] = f
<1>1. CASE Places(f) = {}
  BY <1>1 DEF FirstIndex, Places
<1>2. CASE Places(f) # {}
  <2>1. PICK i \in Places(f) : \A j \in Places(f) : i <= j
    <3>1. Places(f) \subseteq Nat
      BY DEF Places
    <3> QED
      BY <1>2, <3>1, Least
  <2> QED
    BY <2>1 DEF FirstIndex, Places
<1> QED
  BY <1>1, <1>2

LEMMA FireOfNow ==
  ASSUME EventTypeOK
  PROVE  NewFire \in Fire /\ FireOK(NewFire, listeners)
<1>1. /\ listeners \in Seq(Funcs) /\ Len(listeners) \in 0 .. MaxListeners
      /\ 0 \in 0 .. MaxListeners /\ <<>> \in Seq(Funcs)
  BY BoundsAssumption DEF EventTypeOK
<1>2. NewFire \in Fire
  BY <1>1 DEF NewFire, Fire
<1>3. /\ NewFire.index = 0 /\ NewFire.length = Len(listeners)
      /\ NewFire.before = listeners /\ NewFire.called = <<>>
  BY DEF NewFire
<1>4. FireOK(NewFire, listeners)
  BY <1>1, <1>3 DEF FireOK, Undisturbed
<1> QED
  BY <1>2, <1>4

\* The next index of a walk is the next of those that were there.
LEMMA StepOfFire ==
  ASSUME EventTypeOK, NEW fire \in Fire, FireOK(fire, listeners), fire.index < fire.length
  PROVE  Stepped(fire) \in Fire /\ FireOK(Stepped(fire), listeners)
<1>1. /\ fire.index \in 0 .. MaxListeners /\ fire.length \in 0 .. MaxListeners
      /\ fire.called \in Seq(Funcs) /\ fire.before \in Seq(Funcs)
      /\ fire.shrunk \in BOOLEAN /\ fire.calling \in BOOLEAN
  BY DEF Fire
<1>2. fire.index + 1 \in 0 .. MaxListeners
  BY <1>1, BoundsAssumption
<1>3. CASE fire.index < Len(listeners)
  <2> DEFINE called == Append(fire.called, listeners[fire.index + 1])
  <2>1. listeners[fire.index + 1] \in Funcs
    BY <1>1, <1>3 DEF EventTypeOK
  <2>2. /\ called \in Seq(Funcs) /\ Len(called) = Len(fire.called) + 1
        /\ \A j \in 1 .. Len(fire.called) : called[j] = fire.called[j]
        /\ called[Len(fire.called) + 1] = listeners[fire.index + 1]
    BY <1>1, <2>1, AppendProperties
  <2> HIDE DEF called
  <2>3. Stepped(fire) = [fire EXCEPT !.index = fire.index + 1, !.calling = TRUE, !.called = called]
    BY <1>3 DEF Stepped, called
  <2>4. Stepped(fire) \in Fire
    BY <1>1, <1>2, <2>2, <2>3 DEF Fire
  <2>5. /\ Stepped(fire).index = fire.index + 1 /\ Stepped(fire).length = fire.length
        /\ Stepped(fire).called = called /\ Stepped(fire).before = fire.before
        /\ Stepped(fire).shrunk = fire.shrunk
    BY <2>3 DEF Fire
  <2>6. CASE ~fire.shrunk
    <3>1. Undisturbed(fire, listeners)
      BY <2>6 DEF FireOK
    <3>2. \A j \in 1 .. fire.index + 1 : called[j] = fire.before[j]
      <4> SUFFICES ASSUME NEW j \in 1 .. fire.index + 1 PROVE called[j] = fire.before[j]
        OBVIOUS
      <4>1. CASE j \in 1 .. fire.index
        BY <1>1, <2>2, <3>1, <4>1 DEF Undisturbed
      <4>2. CASE j = fire.index + 1
        <5>1. j = Len(fire.called) + 1 /\ j \in 1 .. Len(fire.before)
          BY <1>1, <3>1, <4>2 DEF Undisturbed
        <5>2. called[j] = listeners[j]
          BY <2>2, <4>2, <5>1
        <5> QED
          BY <3>1, <5>1, <5>2 DEF Undisturbed
      <4> QED
        BY <1>1, <4>1, <4>2
    <3> QED
      BY <1>1, <2>2, <2>4, <2>5, <3>1, <3>2 DEF FireOK, Undisturbed
  <2> QED
    BY <1>1, <2>4, <2>5, <2>6 DEF FireOK
<1>4. CASE ~(fire.index < Len(listeners))
  <2>1. fire.shrunk
    BY <1>1, <1>4 DEF EventTypeOK, FireOK, Undisturbed
  <2>2. Stepped(fire) = [fire EXCEPT !.index = fire.index + 1]
    BY <1>4 DEF Stepped
  <2> QED
    BY <1>1, <1>2, <2>1, <2>2 DEF Fire, FireOK
<1> QED
  BY <1>3, <1>4

\* Whatever is added behind those that were there leaves a walk as it is.
LEMMA AddedBehind ==
  ASSUME EventTypeOK, NEW g \in Funcs, listeners' = Append(listeners, g),
         NEW fire \in Fire, FireOK(fire, listeners)
  PROVE  FireOK(fire, listeners')
  BY DEF EventTypeOK, Fire, FireOK, Undisturbed

\* Replacing the innermost walk.
LEMMA Innermost ==
  ASSUME EventInv, fires # <<>>, NEW fire \in Fire, FireOK(fire, listeners), UNCHANGED listeners,
         fires' = [fires EXCEPT ![Len(fires)] = fire]
  PROVE  /\ fires' \in Seq(Fire) /\ Len(fires') <= MaxDepth
         /\ \A i \in DOMAIN fires' : FireOK(fires'[i], listeners')
<1>1. fires \in Seq(Fire) /\ Len(fires) \in 1 .. Len(fires) /\ Len(fires) <= MaxDepth
  BY DEF EventInv, EventTypeOK
<1>2. /\ fires' \in Seq(Fire) /\ Len(fires') = Len(fires)
      /\ \A j \in 1 .. Len(fires) : fires'[j] = IF j = Len(fires) THEN fire ELSE fires[j]
  BY <1>1, ExceptSeq
<1>3. ASSUME NEW i \in DOMAIN fires' PROVE FireOK(fires'[i], listeners')
  <2>1. i \in 1 .. Len(fires) /\ i \in DOMAIN fires
    BY <1>1, <1>2
  <2>2. FireOK(fires'[i], listeners)
    BY <1>2, <2>1 DEF EventInv
  <2> QED
    BY <2>2 DEF FireOK, Undisturbed
<1> QED
  BY <1>1, <1>2, <1>3

LEMMA EventInitInv == EventInit => EventInv
<1> SUFFICES ASSUME EventInit PROVE EventInv
  OBVIOUS
<1>1. EventTypeOK
  BY BoundsAssumption DEF EventInit, EventTypeOK
<1>2. ASSUME NEW f \in Funcs PROVE Cardinality(Places(f)) = registered[f]
  <2>1. Places(f) = {}
    BY DEF EventInit, Places
  <2> QED
    BY <2>1, FS_EmptySet DEF EventInit
<1> QED
  BY <1>1, <1>2 DEF EventInit, EventInv

LEMMA EventStepInv == EventInv /\ [EventNext]_eventVars => EventInv'
<1> SUFFICES ASSUME EventInv, [EventNext]_eventVars PROVE EventInv'
  OBVIOUS
<1>t. /\ listeners \in Seq(Funcs) /\ Len(listeners) \in Nat /\ fires \in Seq(Fire)
      /\ MaxListeners \in Nat /\ MaxNative \in Nat /\ MaxDepth \in Nat
      /\ \A i \in DOMAIN fires : fires[i] \in Fire /\ FireOK(fires[i], listeners)
  BY BoundsAssumption DEF EventInv, EventTypeOK
<1>1. ASSUME NEW f \in Funcs, addEventListener(f) PROVE EventInv'
  <2>1. \A g \in Funcs : Cardinality(Places(g)') = registered'[g]
    BY <1>1, <1>t, PlacesOfAppend DEF addEventListener, EventInv, EventTypeOK
  <2>2. listeners' \in Seq(Funcs) /\ Len(listeners') = Len(listeners) + 1
    BY <1>1, <1>t, AppendProperties DEF addEventListener
  <2>3. registered' \in [Funcs -> 0 .. MaxListeners]
    <3>1. Cardinality(Places(f)) <= Len(listeners) /\ Cardinality(Places(f)) \in Nat
      BY <1>t, PlacesAreFinite
    <3>2. registered[f] + 1 \in 0 .. MaxListeners
      BY <1>1, <1>t, <3>1 DEF addEventListener, EventInv
    <3> QED
      BY <1>1, <3>2 DEF addEventListener, EventInv, EventTypeOK
  <2>4. \A i \in DOMAIN fires' : FireOK(fires'[i], listeners')
    BY <1>1, <1>t, AddedBehind DEF addEventListener, EventInv
  <2>5. EventTypeOK'
    BY <1>1, <1>t, <2>2, <2>3 DEF addEventListener, EventInv, EventTypeOK
  <2> QED
    BY <1>1, <2>1, <2>4, <2>5 DEF addEventListener, EventInv, EventTypeOK
<1>2. ASSUME NEW f \in Funcs, removeEventListener(f), FirstIndex(f) = 0 PROVE EventInv'
  <2>1. Places(f) = {} /\ Cardinality(Places(f)) = 0
    BY <1>2, <1>t, PlaceFound, FS_EmptySet
  <2>2. registered' = registered
    BY <1>2, <2>1 DEF removeEventListener, EventInv, EventTypeOK
  <2> QED
    BY <1>2, <2>2 DEF removeEventListener, EventInv, EventTypeOK, FireOK, Undisturbed, Places
<1>3. ASSUME NEW f \in Funcs, removeEventListener(f), FirstIndex(f) # 0 PROVE EventInv'
  <2> DEFINE k == FirstIndex(f)
  <2>1. k \in 1 .. Len(listeners) /\ listeners[k] = f /\ listeners' = RemoveAt(listeners, k)
    BY <1>3, <1>t, PlaceFound DEF removeEventListener
  <2> HIDE DEF k
  <2>2. \A g \in Funcs : Cardinality(Places(g)') = registered[g] - (IF g = f THEN 1 ELSE 0)
    BY <1>t, <2>1, PlacesOfRemoved DEF EventInv
  <2>3. listeners' \in Seq(Funcs) /\ Len(listeners') = Len(listeners) - 1
    BY <1>t, <2>1, Removed
  <2>4. registered[f] > 0
    <3>1. Places(f) # {}
      BY <1>t, <2>1 DEF Places
    <3> QED
      BY <1>t, <3>1, PlacesAreFinite, FS_EmptySet DEF EventInv
  <2>5. /\ registered' = [registered EXCEPT ![f] = registered[f] - 1]
        /\ registered' \in [Funcs -> 0 .. MaxListeners]
    <3>1. registered \in [Funcs -> 0 .. MaxListeners]
      BY DEF EventInv, EventTypeOK
    <3>2. registered[f] - 1 \in 0 .. MaxListeners /\ registered[f] # 0
      BY <1>t, <2>4, <3>1
    <3>3. registered' = [registered EXCEPT ![f] = registered[f] - 1]
      BY <1>3, <3>1, <3>2 DEF removeEventListener
    <3> QED
      BY <3>1, <3>2, <3>3
  <2>6. \A g \in Funcs : Cardinality(Places(g)') = registered'[g]
    BY <2>2, <2>5 DEF EventInv, EventTypeOK
  <2>7. /\ fires' \in Seq(Fire) /\ Len(fires') = Len(fires)
        /\ \A i \in DOMAIN fires' :
             /\ i \in DOMAIN fires
             /\ fires'[i] = [fires[i] EXCEPT !.shrunk = TRUE]
    <3>1. fires' = [i \in 1 .. Len(fires) |-> [fires[i] EXCEPT !.shrunk = TRUE]]
      BY <1>3, <1>t DEF removeEventListener
    <3>2. \A i \in 1 .. Len(fires) : [fires[i] EXCEPT !.shrunk = TRUE] \in Fire
      <4> SUFFICES ASSUME NEW i \in 1 .. Len(fires)
                   PROVE  [fires[i] EXCEPT !.shrunk = TRUE] \in Fire
        OBVIOUS
      <4>1. fires[i] \in Fire
        BY <1>t
      <4> QED
        BY <4>1 DEF Fire
    <3> QED
      BY <1>t, <3>1, <3>2
  <2>8. \A i \in DOMAIN fires' : FireOK(fires'[i], listeners') /\ fires'[i].index <= fires'[i].length
    BY <1>t, <2>7 DEF FireOK, Fire
  <2>9. EventTypeOK'
    BY <1>3, <1>t, <2>3, <2>5, <2>7, <2>8 DEF removeEventListener, EventInv, EventTypeOK
  <2> QED
    BY <1>3, <1>t, <2>1, <2>6, <2>8, <2>9 DEF removeEventListener, EventInv, EventTypeOK
<1>4. ASSUME fireEvent \/ NextHandler PROVE EventInv'
  <2>1. NewFire \in Fire /\ FireOK(NewFire, listeners)
    BY FireOfNow DEF EventInv
  <2>2. /\ \/ fires' = Append(fires, NewFire) /\ Len(fires) < MaxDepth
           \/ fires' = <<NewFire>> /\ MaxDepth > 0
        /\ UNCHANGED <<listeners, native, registered>>
        /\ calls_due' = calls_due \/ (calls_due > 0 /\ calls_due' = calls_due - 1)
    BY <1>4, BoundsAssumption DEF fireEvent, NextHandler
  <2>3. /\ fires' \in Seq(Fire) /\ Len(fires') <= MaxDepth
        /\ \A i \in DOMAIN fires' : fires'[i] \in Fire /\ FireOK(fires'[i], listeners)
    <3>1. CASE fires' = Append(fires, NewFire) /\ Len(fires) < MaxDepth
      <4>1. /\ fires' \in Seq(Fire) /\ Len(fires') = Len(fires) + 1
            /\ \A i \in 1 .. Len(fires) : fires'[i] = fires[i]
            /\ fires'[Len(fires) + 1] = NewFire
        BY <1>t, <2>1, <3>1, AppendProperties
      <4> QED
        BY <1>t, <2>1, <3>1, <4>1
    <3>2. CASE fires' = <<NewFire>> /\ MaxDepth > 0
      BY <1>t, <2>1, <3>2
    <3> QED
      BY <2>2, <3>1, <3>2
  <2>4. EventTypeOK'
    <3>1. calls_due' \in 0 .. MaxNative
      BY <1>t, <2>2 DEF EventInv, EventTypeOK
    <3> QED
      BY <2>2, <2>3, <3>1 DEF EventInv, EventTypeOK, FireOK
  <2> QED
    BY <2>2, <2>3, <2>4 DEF EventInv, Places
<1>5. ASSUME ForEachNext PROVE EventInv'
  <2>1. Last(fires) \in Fire /\ FireOK(Last(fires), listeners)
    BY <1>5, <1>t DEF ForEachNext, Last
  <2>2. Stepped(Last(fires)) \in Fire /\ FireOK(Stepped(Last(fires)), listeners)
    BY <1>5, <2>1, StepOfFire DEF ForEachNext, EventInv
  <2>3. /\ fires' \in Seq(Fire) /\ Len(fires') <= MaxDepth
        /\ \A i \in DOMAIN fires' : FireOK(fires'[i], listeners')
    BY <1>5, <2>2, Innermost DEF ForEachNext
  <2> QED
    BY <1>5, <2>3 DEF ForEachNext, EventInv, EventTypeOK, FireOK, Places
<1>6. ASSUME ListenerReturns PROVE EventInv'
  <2> DEFINE fire == [Last(fires) EXCEPT !.calling = FALSE]
  <2>1. Last(fires) \in Fire /\ FireOK(Last(fires), listeners)
    BY <1>6, <1>t DEF ListenerReturns, Last
  <2>2. fire \in Fire /\ FireOK(fire, listeners)
    BY <2>1 DEF Fire, FireOK, Undisturbed
  <2>3. /\ fires' \in Seq(Fire) /\ Len(fires') <= MaxDepth
        /\ \A i \in DOMAIN fires' : FireOK(fires'[i], listeners')
    BY <1>6, <2>2, Innermost DEF ListenerReturns
  <2> QED
    BY <1>6, <2>3 DEF ListenerReturns, EventInv, EventTypeOK, FireOK, Places
<1>7. ASSUME FireReturns PROVE EventInv'
  <2>1. /\ fires' \in Seq(Fire) /\ Len(fires') = Len(fires) - 1
        /\ \A i \in DOMAIN fires' : i \in DOMAIN fires /\ fires'[i] = fires[i]
    <3>1. Len(fires) \in Nat \ {0} /\ fires' = SubSeq(fires, 1, Len(fires) - 1)
      BY <1>7, <1>t DEF FireReturns, Front
    <3>2. \A i \in 1 .. Len(fires) - 1 : fires[i] \in Fire
      BY <1>t, <3>1
    <3>3. /\ fires' \in Seq(Fire) /\ Len(fires') = Len(fires) - 1
          /\ \A i \in 1 .. Len(fires) - 1 : fires'[i] = fires[i]
      <4> DEFINE m == Len(fires) - 1
      <4>1. m \in Nat /\ \A i \in 1 .. m : fires[i] \in Fire
        BY <3>1, <3>2
      <4> HIDE DEF m
      <4>2. /\ SubSeq(fires, 1, m) \in Seq(Fire) /\ Len(SubSeq(fires, 1, m)) = m
            /\ \A i \in 1 .. m : SubSeq(fires, 1, m)[i] = fires[i]
        BY <4>1, SubSeqProperties
      <4> QED
        BY <3>1, <4>2 DEF m
    <3> QED
      BY <1>t, <3>1, <3>3
  <2> QED
    <3>1. UNCHANGED <<listeners, native, calls_due, registered>>
      BY <1>7 DEF FireReturns
    <3>2. Len(fires') <= MaxDepth
      BY <1>t, <2>1 DEF EventInv, EventTypeOK
    <3>3. \A i \in DOMAIN fires' : FireOK(fires'[i], listeners)
      BY <1>t, <2>1
    <3> QED
      BY <2>1, <3>1, <3>2, <3>3 DEF EventInv, EventTypeOK, FireOK, Places
<1>8. ASSUME NativeEvent PROVE EventInv'
  BY <1>8 DEF NativeEvent, EventInv, EventTypeOK, FireOK, Undisturbed, Places
<1>9. CASE UNCHANGED eventVars
  BY <1>9 DEF eventVars, EventInv, EventTypeOK, FireOK, Undisturbed, Places
<1> QED
  BY <1>1, <1>2, <1>3, <1>4, <1>5, <1>6, <1>7, <1>8, <1>9 DEF EventNext, Script, Walk

LEMMA EventInvariance == EventSpec => []EventInv
  BY EventInitInv, EventStepInv, PTL DEF EventSpec

\* fireEvent, when no listener is removed meanwhile, calls those who listened
\* when it began, in order and once each, for any depth of nesting.
THEOREM FiresReach == EventSpec => []FiresThoseBefore
<1>1. EventInv => FiresThoseBefore
  <2> SUFFICES ASSUME EventInv, NEW i \in DOMAIN fires, ~fires[i].shrunk
               PROVE  IsPrefix(fires[i].called, fires[i].before) /\ Len(fires[i].called) = fires[i].index
    BY DEF EventInv, FiresThoseBefore
  <2>1. /\ fires[i].called \in Seq(Funcs) /\ fires[i].before \in Seq(Funcs)
        /\ fires[i].index \in Nat /\ fires[i].index <= fires[i].length
        /\ Undisturbed(fires[i], listeners)
    <3>1. fires[i] \in Fire /\ FireOK(fires[i], listeners)
      BY DEF EventInv, EventTypeOK
    <3> QED
      BY <3>1 DEF Fire, FireOK
  <2> DEFINE s == fires[i].called  t == fires[i].before
  <2>2. Len(s) <= Len(t) /\ Len(s) = fires[i].index /\ \A j \in 1 .. Len(s) : s[j] = t[j]
    BY <2>1 DEF Undisturbed
  <2> HIDE DEF s, t
  <2>3. s \in Seq(Funcs) /\ t \in Seq(Funcs)
    BY <2>1 DEF s, t
  <2>4. /\ SubSeq(s, 1, Len(s)) \in Seq(Funcs) /\ Len(SubSeq(s, 1, Len(s))) = Len(s)
        /\ \A j \in 1 .. Len(s) : SubSeq(s, 1, Len(s))[j] = s[j]
    BY <2>3, SubSeqProperties
  <2>5. /\ SubSeq(t, 1, Len(s)) \in Seq(Funcs) /\ Len(SubSeq(t, 1, Len(s))) = Len(s)
        /\ \A j \in 1 .. Len(s) : SubSeq(t, 1, Len(s))[j] = t[j]
    BY <2>2, <2>3, SubSeqProperties
  <2>6. SubSeq(s, 1, Len(s)) = SubSeq(t, 1, Len(s))
    BY <2>2, <2>4, <2>5, SeqEqual
  <2> QED
    BY <2>2, <2>6 DEF IsPrefix, s, t
<1> QED
  BY <1>1, EventInvariance, PTL

\* addEventListener and removeEventListener keep each function as often as it
\* was added and not removed, and whoever listens has a native handler.
THEOREM ListenersKept == EventSpec => []ListenersAreHeard
<1>1. EventInv => ListenersAreHeard
  BY DEF EventInv, ListenersAreHeard, Places
<1> QED
  BY <1>1, EventInvariance, PTL
=============================================================================
