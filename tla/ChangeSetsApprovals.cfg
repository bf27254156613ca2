\* A CRITICAL plan and perhaps a rollback of it: three people, three approvals, two tickets, a bump,
\* a crash.
CONSTANTS
  c1 = c1  c2 = c2  h1 = h1  h2 = h2  h3 = h3
  a1 = a1  a2 = a2  a3 = a3  t1 = t1  t2 = t2
  ann = ann  bob = bob  eve = eve  on = on  off = off  s1 = s1
  None = None
  Changesets = {c1, c2}
  Approvals = {a1, a2, a3}
  Tickets = {t1, t2}
  Handlers = {h1, h2}
  People = {ann, bob, eve}
  Risk <- CriticalThenHigh
  Author <- AskedByAnn
  Snapshots = {on}
  Configured = {on}
  LiveStates = {s1}
  MaxGen = 2
  MaxCrashes = 1
SPECIFICATION Spec
SYMMETRY InterchangeableApprovers
CONSTRAINT SecondIsDraft
INVARIANTS
  GrantUsedOnce  QuorumAtDispatch ApprovedHasQuorum
  RollbackHasCause
PROPERTIES GrantsEndOnce KeepsGrantPromise
\* Identifiers run out, and nothing is left to do with a settled plan.
CHECK_DEADLOCK FALSE
