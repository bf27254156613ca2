\* A decision lands between the checks and the writes of execute_changeset.
CONSTANTS
  c1 = c1  c2 = c2  h1 = h1  h2 = h2  h3 = h3
  a1 = a1  a2 = a2  a3 = a3  t1 = t1  t2 = t2
  ann = ann  bob = bob  eve = eve  on = on  off = off  s1 = s1
  None = None
  Changesets <- OnePlan
  Approvals = {a1}
  Tickets = {t1}
  Handlers = {h1, h2}
  People = {ann, bob}
  Risk <- High
  Author <- AskedByAnn
  Snapshots = {on}
  Configured = {on}
  LiveStates = {s1}
  MaxGen = 2
  MaxCrashes = 0
SPECIFICATION Spec
SYMMETRY Interchangeable
INVARIANTS ConsumedBeforeDispatch
\* Identifiers run out, and nothing is left to do with a settled plan.
CHECK_DEADLOCK FALSE
