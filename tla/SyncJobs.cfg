\* Two workers, two jobs of one repository, two attempts, one upset.
CONSTANTS
  Job = {j1, j2}
  k1 = k1
  Key = {k1}
  KeyOf <- OneKey
  Worker = {w1, w2}
  MaxAttempts = 2
  MaxUpsets = 1
  None = None
SPECIFICATION Spec
CHECK_DEADLOCK FALSE
PROPERTIES KeepsRequests EveryJobEnds
