SPECIFICATION Spec
CONSTANTS
  LastEvent = 2
  Readers = {r1, r2, r3}
  Polls = {p1}
  Threads = 3
INVARIANT FarewellIsFinal
PROPERTIES ImplementsLiveFeed ReadersEnd
