\* Two requests race over two analyses, proposals and decisions.
SPECIFICATION Spec
CONSTANTS
  h1 = h1
  h2 = h2
  w1 = w1
  w2 = w2
  a1 = a1
  a2 = a2
  s1 = s1
  s2 = s2
  d1 = d1
  d2 = d2
  cheap = cheap
  costly = costly
  None = None
  Cost <- MCCost
  Threshold = 20
  Handlers = {h1, h2}
  Workers = {}
  Analyses = {a1, a2}
  SelectionIds = {s1, s2}
  DecisionIds = {d1, d2}
  Options = {cheap, costly}
  MaxAttempts = 0
INVARIANTS
  ApprovalBacked
  OneApprovalPerSelection
  SupersededIffReplaced
  TokenGuardsReads
PROPERTIES
  LedgerAppendOnly
CHECK_DEADLOCK FALSE
SYMMETRY Symmetry
