SPECIFICATION Spec
CONSTANTS
  t1 = t1
  t2 = t2
  a = a
  b = b
  Threads = {t1, t2}
  RunOf <- RunsOf
  MaxLines = 2
  MaxEvents = 5
INVARIANT OnlyRacesHurt
