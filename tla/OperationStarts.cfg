\* One HIGH plan, and three requests at a time: one can start the job while an
\* approval and an authorisation are in flight that make a second start possible.
CONSTANTS
  c1 = c1  c2 = c2  h1 = h1  h2 = h2  h3 = h3
  a1 = a1  a2 = a2  a3 = a3  t1 = t1  t2 = t2
  ann = ann  bob = bob  eve = eve  on = on  off = off  s1 = s1
  None = None
  Changesets <- OnePlan
  Approvals = {a1, a2}
  Tickets = {t1}
  Handlers = {h1, h2, h3}
  People = {ann, bob}
  Risk <- High
  Author <- AskedByAnn
  Snapshots = {on}
  Configured = {on}
  LiveStates = {s1}
  Trusted = {c1}
  Native = {c1}
  MaxGen = 1
  MaxCrashes = 0
SPECIFICATION JobSpec
CONSTRAINT BrokerRequestsAlone
SYMMETRY Interchangeable
INVARIANTS StartsOnConsumedQuorum OutcomeHasStart
PROPERTIES KeepsCheckedPromise
CHECK_DEADLOCK FALSE
