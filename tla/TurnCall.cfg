SPECIFICATION Spec
CONSTANTS
  Turns = 2
  MaxRetries = 1
  ConcurrentMax = 2
  PerMinute = 3
  QueueDepth = 1
  Unset = Unset
  None = None
INVARIANTS AnswerIsCurrent FailedOnlyWhenSpent QueuedOnlyWhenStarved
PROPERTIES EveryRunEnds
