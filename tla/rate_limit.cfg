SPECIFICATION Spec
CONSTANTS
  Requests = {r1, r2, r3, r4}
  MaxRequests = 2
  WindowSeconds = 2
  Second = 2
  MaxTime = 4
  None = None
SYMMETRY RequestSymmetry
INVARIANTS TypeOK NeverOvercharged LimitPerTimeToLive
PROPERTIES RefusalsEndBursts QuietClientsAreAdmitted
CHECK_DEADLOCK FALSE
