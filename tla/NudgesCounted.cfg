SPECIFICATION Spec
CONSTANTS
  Rounds = 2
  NoMessage = NoMessage
INVARIANT NudgesCounted
