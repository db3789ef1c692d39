\* Two runners draw two issues for one contributor.
CONSTANTS
  Issue = {i1, i2}
  User = {u1}
  Runner = {r1, r2}
  Admin = admin
  Slots = 1
  EarnedAfter = 1
  SlotsMax = 2
  OrgCap = 2
  AbandonLimit = 1
  EmptyRetries = 0
  MaxRows = 1
  MaxMerges = 1
  MaxMishaps = 0
  Nobody = Nobody
SPECIFICATION AssignmentsSpec
SYMMETRY Symmetry
VIEW View
CHECK_DEADLOCK FALSE
PROPERTIES WinsWithinCaps
