\* Two admins, one verdict, two configurations, one failure or change.
CONSTANTS
  Admin = {a1, a2}
  Verdict = {v1}
  Bucket = {"rejected", "accepted"}
  c1 = c1
  c2 = c2
  Config = {c1, c2}
  Default = c1
  None = None
  Units <- MCUnits
  WindowDays <- MCWindowDays
  MaxDays = 1
  MaxUpsets = 1
SPECIFICATION Spec
SYMMETRY Symmetry
CHECK_DEADLOCK FALSE
INVARIANTS DividedOnce WindowHonoured
