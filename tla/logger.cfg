SPECIFICATION Spec
CONSTANTS
  Threads <- TwoThreads
  Sinks <- TwoSinks
  MaxMessages = 3
INVARIANTS EachOnceInOrder AllOutputAtEnd
PROPERTIES WaitsEnd MessageLogSpec
CHECK_DEADLOCK FALSE
