\* Two send requests, two edits, three attempts.
SPECIFICATION EmailSpec
CONSTANTS
  None = None
  Senders = {h1, h2}
  MaxRevisions = 3
  MaxSends = 3
INVARIANTS
  AtMostOneCopy
  SentAsReviewed
  StatusTruthful
PROPERTIES
  ImplementsReviewedMail
CHECK_DEADLOCK FALSE
SYMMETRY Symmetry
