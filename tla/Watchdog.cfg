SPECIFICATION Spec
CONSTANTS
  Interval = 2
  Timeout = 3
  MaxRestarts = 1
  MaxTicks = 4
  BeatEvery = 2
  Delay = 1
INVARIANTS HealthyNeverKilled FallFoundInTime ActionsAnswerFalls
