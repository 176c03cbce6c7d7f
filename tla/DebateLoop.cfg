SPECIFICATION Spec
CONSTANTS
  Rounds = 2
  NoMessage = NoMessage
INVARIANTS RebutsLatest ContextsSound StreamTellsTheRun DatasetTellsTheRun JudgedOnEverything
