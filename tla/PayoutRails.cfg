\* Three transactions on one event pool, each on any rail.
CONSTANTS
  Writer = {w1, w2, w3}
  None = None
SPECIFICATION Spec
CHECK_DEADLOCK FALSE
INVARIANTS StatementExcludesOthers
PROPERTIES WaitersServed
