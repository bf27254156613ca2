\* Two tokens for one name, two tasks for one ChangeSet, two requests at a time,
\* and a policy generation that ends while a task is on offer.
CONSTANTS
  h1 = h1  h2 = h2  k1 = k1  k2 = k2  a1 = a1  a2 = a2  m1 = m1
  t1 = t1  t2 = t2  c1 = c1  n1 = n1  n2 = n2
  None = None
  Handlers = {h1, h2}
  Tokens = {k1, k2}
  Agents = {a1, a2}
  Names = {m1}
  Tasks = {t1, t2}
  ChangeSets = {c1}
  Nonces = {n1, n2}
  MaxGen = 2
SPECIFICATION Spec
SYMMETRY Interchangeable
INVARIANTS TokenEnrolsOnce TaskClaimedOnce
\* Identifiers and nonces run out.
CHECK_DEADLOCK FALSE
