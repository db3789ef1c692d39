\* Two contributors, two requests in flight, four moves; a call that fails or a lease that lapses.
CONSTANTS
  User = {u1, u2}
  Handler = {h1, h2}
  MaxMoves = 4
  MaxFailures = 1
  NoUser = NoUser
  Stray = {stray}
  Leased = leased
SPECIFICATION ApplicationsSpec
CHECK_DEADLOCK FALSE
INVARIANTS OccurrencesAreReal
PROPERTIES StatusesSettle
