SPECIFICATION Spec
CONSTANTS
    Snapshots <- MCSnapshots
    Bundles <- MCBundles
    Contexts <- MCContexts
    Never = Never
    RetrievalWindow = 5
    NoOffer = NoOffer
    NoOutcome = NoOutcome
    NoOption = NoOption
INVARIANTS
    SelectionStands
    RecommendationNotBeaten
    ExposureMatchesReference
CHECK_DEADLOCK FALSE
