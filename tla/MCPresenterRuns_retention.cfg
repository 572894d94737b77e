CONSTANTS
    MaxCollection = 2
    MaxBodyReads = 1
    r1 = r1
    r2 = r2
    o1 = o1
    o2 = o2
    o3 = o3
    t1 = t1
    q1 = q1
    q2 = q2
    None = None
    Mailboxes <- MCMailboxes
    Texts = {1, 2}
    Runs = {r1, r2}
    Requests = {q1, q2}
    Older = {o1, o2, o3}
    Outside = {t1}
    Worked <- MCWorked
    IdRank <- MCIdRank
    Offer <- MCOffer
    HistoricalLimit = 1
    Working = {"attempt"}
    MaxNow = 2
    MaxWrites = 1
    MaxEdits = 1
SYMMETRY Symmetry
SPECIFICATION Spec
INVARIANTS AggregatesAreWhole
PROPERTIES KeptAreNewest AppliedAsPreviewed FoundAsReviewed
CHECK_DEADLOCK FALSE
