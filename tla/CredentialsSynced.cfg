\* Two credentials that want the same name, one of them with its secret on
\* file; two requests at a time, a late call, a crash.
CONSTANTS
  k1 = k1  k2 = k2  n1 = n1  h1 = h1  h2 = h2
  None = None
  Credentials = {k1, k2}
  Local = {k1}
  Names = {n1}
  Handlers = {h1, h2}
  MaxVersion = 2
  MaxLate = 1
  MaxCrashes = 1
SPECIFICATION Spec
SYMMETRY Interchangeable
INVARIANTS CommittedWasAccepted
PROPERTIES RevokedStaysRevoked 
\* Identifiers run out, and deleted credentials leave nothing to do.
CHECK_DEADLOCK FALSE
