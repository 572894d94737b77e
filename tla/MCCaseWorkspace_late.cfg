SPECIFICATION FairSpec
CONSTANTS
    Cases = {c1, c2}
    Independent = {c2}
    NoCase = NoCase
    NoDecision = NoDecision
    MaxAnalyses = 2
    MaxOperations = 4
    MaxPolls = 1
PROPERTIES AnswersKeepCoherence ReopenShowsOneInstant OperationEnds
CHECK_DEADLOCK FALSE
