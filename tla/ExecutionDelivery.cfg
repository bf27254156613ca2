\* One capability, two execute requests for one slot, two decision calls in
\* flight, a change of policy, two crashes.
CONSTANTS
  c1 = c1  c2 = c2  m1 = m1  m2 = m2  r1 = r1  r2 = r2
  None = None
  Caps = {c1}
  Requests = {r1, r2}
  Posts = {m1, m2}
  Slots = 1
  MaxGen = 2
  MaxCrashes = 2
SPECIFICATION FairSpec
INVARIANTS  RunsOnlyApproved SlotsConserved GrantedMeansTaken
PROPERTIES DecisionReachesBroker
\* A capability that has ended leaves nothing to do.
CHECK_DEADLOCK FALSE
