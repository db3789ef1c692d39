\* One issue, one contributor, one runner, a merge, an upset: close and verdicts.
CONSTANTS
  Issue = {i1}
  User = {u1}
  Runner = {r1}
  Admin = admin
  Slots = 1
  EarnedAfter = 1
  SlotsMax = 2
  OrgCap = 2
  AbandonLimit = 1
  EmptyRetries = 1
  MaxRows = 2
  MaxMerges = 1
  MaxMishaps = 1
  Nobody = Nobody
SPECIFICATION AssignmentsSpec
CHECK_DEADLOCK FALSE
PROPERTIES StragglersReleased
