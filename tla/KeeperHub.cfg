\* Two releases, and two read-backs or resolutions, over two attempts; a run
\* that is paid stops.
CONSTANTS
  Person = {p1, p2}
  Attempt = {a1, a2}
  Releaser = {r1, r2}
  Writer = {w1, w2}
  Reports <- EveryKind
  None = None
SPECIFICATION Spec
SYMMETRY Symmetry
CHECK_DEADLOCK FALSE
INVARIANTS PaidOnce NoLegStranded
PROPERTIES PaysOnce
