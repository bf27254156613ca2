SPECIFICATION Spec
CONSTANTS
  h1 = h1
  h2 = h2
  m1 = m1
  None = None
  Handlers = {h1, h2}
  Plans = {m1}
  MaxRuns = 1
  MaxApprovals = 2
  MaxTickets = 2
  MaxAttempts = 2
  MaxGen = 2
  MaxFailures = 1
SYMMETRY Interchangeable
CHECK_DEADLOCK FALSE
INVARIANTS
  TypeOK
  EveryStartIsPaidFor
  ExecutedWasVerified
  
