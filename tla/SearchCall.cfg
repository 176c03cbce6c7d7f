SPECIFICATION SearchSpec
CONSTANTS
  Callers = {c1, c2}
  MaxRetries = 1
  ConcurrentMax = 1
  PerMinute = 3
  QueueDepth = 1
  MaxResults = 2
  Pages <- MCPages
  ProviderErrors = {"TimeoutError", "OtherError"}
  MAX_TOPIC_LEN = 3
  MAX_QUERY_LEN = 2
INVARIANTS SearchTypeOK ResultsAreOwn RequestsBounded EmptyIsExplained LogTellsTheSearch
PROPERTY ImplementsSearchPromise
CHECK_DEADLOCK FALSE
