SPECIFICATION Spec
CONSTANTS
  r1 = r1
  r2 = r2
  r3 = r3
  plain = plain
  Requests = {r1, r2, r3, plain}
  Keyed = {r1, r2, r3}
  Faults = {"await", "handler", "ack", "crash"}
  None = None
SYMMETRY KeyedSymmetry
INVARIANTS TypeOK RunsAgainOnlyIfSpoiled
PROPERTIES ImplementsOnceByKey MarksKeepOthersOut
CHECK_DEADLOCK FALSE
