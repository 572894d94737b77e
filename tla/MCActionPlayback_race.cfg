\* Two runtimes, two actions of which the first has a draft, one retry each.
SPECIFICATION FairSpec
CONSTANTS
  Runners = {r1, r2}
  LastStep = 2
  DraftStep = 1
  MaxFailures = 2
  MaxAttempts = 2
INVARIANTS
  LogExplainsStatus
  OneOpenAttempt
  ObservedOnceAtEnd
PROPERTIES
  ImplementsOrderlyPlayback
  PlaybackEnds
CHECK_DEADLOCK FALSE
