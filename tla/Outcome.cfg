SPECIFICATION OutcomeSpec
CONSTANTS
  Rounds = 1
  Arguments <- MCArguments
  Models = {"opus", "haiku"}
  Budgets = {0, 12}
  Tables <- MCTables
  None = None
INVARIANTS VerdictIsNeutral AgreementWasCorrected MoneyIsTold
PROPERTY SpeakingKeepsTheLead
