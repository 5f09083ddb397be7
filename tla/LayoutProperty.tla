--------------------------- MODULE LayoutProperty ---------------------------
(***************************************************************************)
(* The layout properties of a control on OS X: createLayoutProperty of     *)
(* modules/Utilities/Utilities_base.js over the constraints of             *)
(* modules/Control_mac.js, while the control moves between the containers  *)
(* of modules/Container_mac.js.                                            *)
(*                                                                         *)
(* One control and the three properties of its horizontal axis are         *)
(* modelled; the vertical axis has the same rules, and center and middle   *)
(* have no exclusions.  A value is a number, a percentage or another       *)
(* control, and a constraint is what the setter put into it.  AppKit drops *)
(* the constraints of a view that leaves its superview.                    *)
(***************************************************************************)
EXTENDS Naturals

CONSTANTS
  Containers,   \* the containers a control may be appended to
  Ignoring,     \* those with private.ignoreConstraints: Split, Scroll over a Table
  Scalars,      \* numbers of pixels
  Percents,     \* percentages
  Siblings,     \* controls used as values
  NoParent,     \* private.parent is null, or no superview
  NoValue,      \* null
  NoConstraint, \* null in private.constraints
  MaxChildren   \* bound on how often one container lists the control

ASSUME ContainersAssumption ==
  /\ Ignoring \subseteq Containers
  /\ NoParent \notin Containers
ASSUME ValuesAssumption ==
  /\ NoValue \notin Scalars \cup Percents \cup Siblings
  /\ Scalars \cap Percents = {} /\ Scalars \cap Siblings = {} /\ Percents \cap Siblings = {}
ASSUME BoundAssumption == MaxChildren \in Nat \ {0}

\* What createLayoutProperty puts into a layout object, and a constraint as
\* AppKit keeps it; live while it is installed on its owner's view.
Layouts == [
  multiplier: Percents \cup {"1"},
  constant: Scalars \cup {"0"},
  secondItem: Containers \cup Siblings \cup {"null"}]

Constraints == [layout: Layouts, owner: Containers, live: BOOLEAN]

ASSUME ConstraintAssumption == NoConstraint \notin Constraints

Values == Scalars \cup Percents \cup Siblings

Properties == {"left", "right", "width"}

VARIABLES
  parent,      \* private.parent
  superview,   \* the container whose native view holds the control's view
  children,    \* how often private.children of each container lists the control
  user,        \* private.user
  hooked,      \* the properties with listeners on 'parent-attached' and 'parent-dettached'
  slot,        \* private.constraints, and the native constraints behind them
  exited,      \* fireEvent caught an exception and ended the process
  disciplined, \* history: appended only without a parent, removed only from the parent
  reattached   \* history: appended again while it still had constraints

vars == <<parent, superview, children, user, hooked, slot, exited, disciplined, reattached>>

\* constraint: what private.constraints holds.  inForce: the native
\* constraints installed for the property, whether or not it is held.  astray, a
\* history: the last setter kept a constraint with another second item than the
\* value it was called with asks for.
Slots == [constraint: Constraints \cup {NoConstraint}, inForce: 0 .. 1, astray: BOOLEAN]

Init ==
  /\ parent = NoParent
  /\ superview = NoParent
  /\ children = [c \in Containers |-> 0]
  /\ user = [p \in Properties |-> NoValue]
  /\ hooked = {}
  /\ slot = [p \in Properties |-> [constraint |-> NoConstraint, inForce |-> 0, astray |-> FALSE]]
  /\ exited = FALSE
  /\ disciplined = TRUE
  /\ reattached = FALSE

-----------------------------------------------------------------------------
(***************************************************************************)
(* Faulty variants of the definitions below, none of them part of Next.    *)
(***************************************************************************)

\* Any constraint is kept and given a new constant.
AdjustableAnyway(c, layout) == c # NoConstraint

\* A constraint is replaced and stays installed.
RemoveNothing(par, s) == s.inForce

\* 'parent-attached' runs no setter.
HookedUnset(p, s, par) == s

\* removeChild leaves the control in the list.
RemoveChildUnlisted(c) ==
  /\ ~exited
  /\ superview' = NoParent
  /\ parent' = NoParent
  /\ disciplined' = (disciplined /\ c = parent)
  /\ UNCHANGED <<children, user, hooked, slot, exited, reattached>>

-----------------------------------------------------------------------------
(***************************************************************************)
(* The setter of a property, once past its exclusion.                      *)
(***************************************************************************)

\* na: a property cannot be set when the other two have been.
Excluded(p) == \A q \in Properties \ {p} : user[q] # NoValue

\* The layout object: a width in pixels refers to no second item.
LayoutOf(p, v, par) ==
  [multiplier |-> IF v \in Percents THEN v ELSE "1",
   constant |-> IF v \in Scalars THEN v ELSE "0",
   secondItem |-> CASE v \in Siblings -> v
                    [] v \in Scalars /\ p = "width" -> "null"
                    [] OTHER -> par]

\* changeLayoutConstraint makes do with a new constant: it asks whether there is
\* a second item, not which.
Adjustable(c, layout) ==
  /\ c # NoConstraint
  /\ c.layout.multiplier = layout.multiplier
  /\ (c.layout.secondItem = "null") = (layout.secondItem = "null")

\* removeLayoutConstraint, from the view of the parent the control has now.
RemoveFrom(par, s) ==
  IF s.constraint # NoConstraint /\ s.constraint.live /\ s.constraint.owner = par
  THEN s.inForce - 1
  ELSE s.inForce

\* What the setter leaves of a slot when private.parent is par.
SetSlot(s, p, v, par) ==
  CASE v = NoValue ->
         [constraint |-> NoConstraint, inForce |-> RemoveFrom(par, s), astray |-> FALSE]
    [] v # NoValue /\ par = NoParent -> s
    [] v # NoValue /\ par \in Ignoring ->
         [s EXCEPT !.constraint = NoConstraint, !.astray = FALSE]
    [] OTHER ->
         LET layout == LayoutOf(p, v, par) IN
         IF Adjustable(s.constraint, layout)
         THEN [constraint |-> [s.constraint EXCEPT !.layout.constant = layout.constant],
               inForce |-> s.inForce,
               astray |-> s.constraint.layout.secondItem # layout.secondItem]
         ELSE [constraint |-> [layout |-> layout, owner |-> par, live |-> TRUE],
               inForce |-> RemoveFrom(par, s) + 1,
               astray |-> FALSE]

\* The setter of p as the user calls it.  While p is excluded it throws
\* before it changes anything, null or not.
Set(p, v) ==
  /\ ~exited
  /\ ~Excluded(p)
  /\ user' = [user EXCEPT ![p] = v]
  /\ hooked' = IF v = NoValue THEN hooked ELSE hooked \cup {p}
  /\ slot' = [slot EXCEPT ![p] = SetSlot(@, p, v, parent)]
  /\ UNCHANGED <<parent, superview, children, exited, disciplined, reattached>>

-----------------------------------------------------------------------------
(***************************************************************************)
(* The control moves.                                                      *)
(***************************************************************************)

\* AppKit: a view that leaves its superview takes its constraints out of force.
Leave(s) ==
  [constraint |-> IF s.constraint = NoConstraint THEN NoConstraint
                  ELSE [s.constraint EXCEPT !.live = FALSE],
   inForce |-> 0,
   astray |-> s.astray]

\* The listeners of 'parent-attached' run the setter of p with its own value.
Hooked(p, s, par) == IF p \in hooked THEN SetSlot(s, p, user[p], par) ELSE s

\* Container.appendChild.  The listeners run inside fireEvent: a setter that
\* throws there ends the process.  A view that is added to the superview it
\* already has may or may not lose its constraints.
appendChild(c) ==
  /\ ~exited
  /\ children[c] < MaxChildren
  /\ disciplined' = (disciplined /\ parent = NoParent)
  /\ reattached' = (reattached \/ \E p \in Properties : slot[p].constraint # NoConstraint)
  /\ \/ /\ \E p \in hooked : Excluded(p)
        /\ exited' = TRUE
        /\ UNCHANGED <<parent, superview, children, slot>>
     \/ /\ \A p \in hooked : ~Excluded(p)
        /\ children' = [children EXCEPT ![c] = @ + 1]
        /\ superview' = c
        /\ parent' = c
        /\ \E left \in {TRUE, superview # c} :
             slot' = [p \in Properties |->
                        Hooked(p, IF left THEN Leave(slot[p]) ELSE slot[p], c)]
        /\ UNCHANGED exited
  /\ UNCHANGED <<user, hooked>>

\* Container.removeChild, which does not ask whose child the control is.
\* private.parent is null before the listeners of the properties run, and
\* removeLayoutConstraint then does nothing.
removeChild(c) ==
  /\ ~exited
  /\ children' = [children EXCEPT ![c] = IF @ = 0 THEN 0 ELSE @ - 1]
  /\ superview' = NoParent
  /\ parent' = NoParent
  /\ slot' = [p \in Properties |-> Leave(slot[p])]
  /\ disciplined' = (disciplined /\ c = parent)
  /\ UNCHANGED <<user, hooked, exited, reattached>>

\* moveAbove and moveBelow take the view out of its superview and put it
\* back, then reapplyConstraints forgets each constraint and sets its
\* property again.
moveAbove ==
  /\ ~exited
  /\ parent # NoParent
  /\ superview' = parent
  /\ slot' = [p \in Properties |->
       IF slot[p].constraint = NoConstraint THEN slot[p]
       ELSE SetSlot([Leave(slot[p]) EXCEPT !.constraint = NoConstraint], p, user[p], parent)]
  /\ UNCHANGED <<parent, children, user, hooked, exited, disciplined, reattached>>

Next ==
  \/ \E p \in Properties, v \in Values \cup {NoValue} : Set(p, v)
  \/ \E c \in Containers : appendChild(c) \/ removeChild(c)
  \/ moveAbove

Spec == Init /\ [][Next]_vars

-----------------------------------------------------------------------------
(***************************************************************************)
(* Properties                                                              *)
(***************************************************************************)

TypeOK ==
  /\ parent \in Containers \cup {NoParent}
  /\ superview \in Containers \cup {NoParent}
  /\ children \in [Containers -> 0 .. MaxChildren]
  /\ user \in [Properties -> Values \cup {NoValue}]
  /\ hooked \subseteq Properties
  /\ slot \in [Properties -> Slots]
  /\ exited \in BOOLEAN
  /\ disciplined \in BOOLEAN
  /\ reattached \in BOOLEAN

\* "A name cannot be set when the ... have been set already": no sequence of
\* calls sets all the properties of an axis.
Exclusion == \E p \in Properties : user[p] = NoValue

\* removeLayoutConstraint and addLayoutConstraint act on private.parent: it
\* is the container whose view holds the control's view.
ParentIsSuperview == parent = superview

\* The three trees agree: also children lists a control once while it is there
\* and not afterwards, if it is only appended without a parent and only removed
\* from its parent.
TreesAgree ==
  /\ ParentIsSuperview
  /\ disciplined => \A c \in Containers : children[c] = IF c = parent THEN 1 ELSE 0

\* No constraint of a property is in force that private.constraints does not
\* hold, and never two: they would contradict each other.
OneInForce ==
  \A p \in Properties :
    slot[p].inForce =
      IF slot[p].constraint # NoConstraint /\ slot[p].constraint.live THEN 1 ELSE 0

\* A constraint in force is installed on the view the control is in, and has
\* the multiplier and the constant of the value the property has now.  It has its
\* second item too, except where changeLayoutConstraint kept one that the value
\* before it referred to: left = sibling and then left = 5 keeps the control 5
\* from the sibling and not, as left is documented, from its parent.
InForceAgrees ==
  \A p \in Properties :
    LET c == slot[p].constraint
        wanted == LayoutOf(p, user[p], parent)
    IN  c # NoConstraint /\ c.live =>
          /\ c.owner = superview
          /\ user[p] # NoValue
          /\ c.layout.multiplier = wanted.multiplier
          /\ c.layout.constant = wanted.constant
          /\ c.layout.secondItem = wanted.secondItem <=> ~slot[p].astray

\* A value set before or after the control is first appended takes effect,
\* whatever else is set and however the control is moved in its container: one
\* constraint is in force for it, with the layout the value asks for, or, where
\* the setter kept the second item of an earlier value, with all but that.
FirstAttachApplies ==
  ~reattached /\ parent \notin Ignoring \cup {NoParent} =>
    \A p \in Properties :
      user[p] # NoValue =>
        LET wanted == LayoutOf(p, user[p], parent) IN
        /\ slot[p].inForce = 1
        /\ slot[p].constraint # NoConstraint
        /\ \/ slot[p].constraint.layout = wanted
           \/ /\ slot[p].astray
              /\ slot[p].constraint.layout =
                   [wanted EXCEPT !.secondItem = slot[p].constraint.layout.secondItem]
=============================================================================
