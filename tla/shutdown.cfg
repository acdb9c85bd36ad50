SPECIFICATION FairSpec
CONSTANTS
  Requests = {r1, r2}
  MaxEvents = 4
  None = None
INVARIANTS TypeOK CutOnlyByForce DatabaseOutlivesRequests
PROPERTIES ShutdownEnds
CHECK_DEADLOCK FALSE
