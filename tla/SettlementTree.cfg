\* Three people, one pool of four units, two changes of what is known about them.
CONSTANTS
  Person <- MCPerson
  Weights <- MCWeights
  Pools = {4}
  Login = {l1, l2}
  Address = {x1, x2, x3}
  Known <- MCKnown
  Builder = {b1, b2}
  l1 = l1
  l2 = l2
  x1 = x1
  x2 = x2
  x3 = x3
  None = None
  MaxMoves = 2
SPECIFICATION Spec
SYMMETRY Symmetry
CHECK_DEADLOCK FALSE
INVARIANTS ClosestDivision BuiltFromReport PaidOrHeldOnce
