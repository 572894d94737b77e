SPECIFICATION FairSpec
CONSTANTS
    Analyzers = {a1}
    Deciders = {r1, r2}
    Workers = {w1, w2}
    Keys = {k1, k2}
    Materials = {m1, m2}
    Unmet = {m2}
    MaxAnalyses = 2
    MaxDecisions = 2
    MaxFaults = 2
INVARIANTS KeyDecidesOnce PlannedIffProcessed StatusHasCause
PROPERTY ApprovalSettles
CHECK_DEADLOCK FALSE
