\* One HIGH plan, two tickets, a broker restart, changes by others.
CONSTANTS
  c1 = c1  c2 = c2  h1 = h1  h2 = h2  a1 = a1  a2 = a2  t1 = t1  t2 = t2
  ann = ann  bob = bob  on = on  s1 = s1  s2 = s2
  None = None
  Changesets = {c1}
  Approvals = {a1}
  Tickets = {t1, t2}
  Handlers = {h1, h2}
  People = {ann, bob}
  Risk <- High
  Author <- AskedByAnn
  Snapshots = {on}
  Configured = {on}
  LiveStates = {s1, s2}
  Desired <- AllToS2
  Intruders = {s1}
  MaxGen = 1
  MaxCrashes = 0
  MaxRestarts = 1
SPECIFICATION GovernanceSpec
SYMMETRY Interchangeable
INVARIANTS GrantAppliesOnce ExecutedReachedCluster
\* Identifiers run out, and nothing is left to do with a settled plan.
CHECK_DEADLOCK FALSE
