\* The process may exit, and then nothing happens any more.
SPECIFICATION Spec
CONSTANTS
  box = box
  window = window
  split = split
  half = half
  sibling = sibling
  px5 = px5
  px9 = px9
  Containers <- MCContainers
  Ignoring <- MCIgnoring
  Scalars <- MCScalars
  Percents <- MCPercents
  Siblings <- MCSiblings
  NoParent = NoParent
  NoValue = NoValue
  NoConstraint = NoConstraint
  MaxChildren = 2
CHECK_DEADLOCK FALSE
INVARIANTS
  TreesAgree
  OneInForce
  InForceAgrees
  FirstAttachApplies
