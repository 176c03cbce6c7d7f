SPECIFICATION Spec
CONSTANTS
  MaxRuns = 2
  LastEvent = 2
INVARIANTS PageIsHonest PatientUserSeesTheRun
PROPERTY LiveEnds
