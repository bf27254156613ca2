\* Two plans of any kind, two tickets, each of which may come twice across a
\* restart of the worker, and one change by somebody else.
CONSTANTS
  h1 = h1  h2 = h2  p1 = p1  p2 = p2  t1 = t1  t2 = t2
  None = None
  Plans = {p1, p2}
  Tickets = {t1, t2}
  Handlers = {h1, h2}
  MaxVersion = 2
  MaxBoots = 2
  MaxOutside = 1
  MaxRestarts = 1
SPECIFICATION Spec
SYMMETRY Interchangeable
INVARIANTS TypeOK 
PROPERTIES  SucceedsOnlyIfSo
\* Calls, plans and tickets run out.
CHECK_DEADLOCK FALSE
