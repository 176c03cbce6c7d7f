SPECIFICATION Spec
CONSTANTS
  Environments <- MCEnvironments
  KeyStates <- MCKeyStates
  Rounds = {0, 1}
  KnownProviders = {"anthropic", "openai", "mistral", "test"}
  Keys = {"ANTHROPIC_API_KEY", "OPENAI_API_KEY", "MISTRAL_API_KEY"}
  ClientKey <- MCClientKey
  MaxMenuRuns = 2
  MaxAbandoned = 2
  MaxLines = 4
  MAX_TOPIC_LEN = 3
  MAX_QUERY_LEN = 2
  None = None
INVARIANTS AgentsMatchTheConfig AcceptedRunsStart StdoutIsTheResult EndIsTold
