\* One session, two of the writers of the row, two attempts, a death: the executor.
CONSTANTS
  Session = {s1}
  Writer = {"start", "webhook"}
  MaxMoves = 1
  MaxUpsets = 1
  MaxAttempts = 2
  None = None
SPECIFICATION Spec
CHECK_DEADLOCK FALSE
PROPERTIES SessionsAccounted RequestsEnd
