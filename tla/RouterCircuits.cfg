\* Two requests at a time; m2 is the strong tier's model and m1 the other
\* tiers'.  Two failures open a circuit.
CONSTANTS
  h1 = h1  h2 = h2  m1 = m1  m2 = m2
  None = None
  Handlers = {h1, h2}
  Models = {m1, m2}
  Standard = m1
  Strong = m2
  Rpm = 1
  Limit = 1
  MaxCost = 1
  Threshold = 2
  MaxRetries = 1
SPECIFICATION Spec
SYMMETRY Interchangeable
INVARIANTS QuotaHolds OverrunIsBounded OpensOnOwnFailures
