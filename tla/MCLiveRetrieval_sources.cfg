SPECIFICATION FairSpec
CONSTANTS
    Delegated <- MCDelegated
    Stages <- MCStages
    Selections <- MCSelections
    MaxChanges = 1
    MaxCancels = 2
    None = None
INVARIANTS NothingOutlivesExchange EvidenceIsBound ReportIsTruthful
           ExplanationEarned AnalysisSurvivesAgents
PROPERTY EverythingEnds
CHECK_DEADLOCK FALSE
