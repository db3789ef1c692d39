\* Two transactions on any rails of one event pool with two winners, two changes of
\* what is known of them, one notice that fails.
CONSTANTS
  Writer = {w1, w2}
  p1 = p1
  p2 = p2
  Person = {p1, p2}
  Account = {g1, g2, g3}
  Divisions <- MCDivisions
  MaxMoves = 2
  MaxUpsets = 1
  None = None
SPECIFICATION StatementsSpec
CHECK_DEADLOCK FALSE
INVARIANTS PaidAsSigned ToldOnce
