\* A losing recovery retires a current approval.
SPECIFICATION Spec
CONSTANTS
  h1 = h1
  h2 = h2
  w1 = w1
  w2 = w2
  a1 = a1
  a2 = a2
  s1 = s1
  s2 = s2
  d1 = d1
  d2 = d2
  cheap = cheap
  costly = costly
  None = None
  Cost <- MCCost
  Threshold = 20
  Handlers = {h1, w1, w2}
  Workers = {w1, w2}
  Analyses = {a1}
  SelectionIds = {s1}
  DecisionIds = {d1}
  Options = {cheap}
  MaxAttempts = 2
INVARIANTS
  RetiredEventsWereStale
CHECK_DEADLOCK FALSE
SYMMETRY Symmetry
