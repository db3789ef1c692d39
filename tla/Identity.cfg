\* Two sessions at Didit, every writer of the row, two moves at Didit, a death.
CONSTANTS
  Session = {s1, s2}
  Writer = {"start", "poll", "webhook", "reconcile"}
  MaxMoves = 2
  MaxUpsets = 1
  None = None
SPECIFICATION VerificationSpec
CHECK_DEADLOCK FALSE
PROPERTIES StatusSettles
