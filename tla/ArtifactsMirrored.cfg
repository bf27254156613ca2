\* Two artifacts that want one destination, three jobs, one PXE plan, a crash;
\* and every dependency graph of three artifacts.
CONSTANTS
  i1 = i1  i2 = i2  i3 = i3  j1 = j1  j2 = j2  j3 = j3  x1 = x1
  p1 = p1  p2 = p2  d0 = d0  d1 = d1  d2 = d2
  None = None
  Items = {i1, i2, i3}
  Jobs = {j1, j2, j3}
  Plans = {x1}
  Places = {p1, p2}
  Digests = {d0, d1, d2}
  Genuine = {d1, d2}
  Rank <- FirstToLast
  MaxCrashes = 1
SPECIFICATION MCSpec
CONSTRAINTS GraphsAlone ThirdAlone
SYMMETRY Interchangeable
INVARIANTS TypeOK MirroredWasThere InstallsApprovedFiles OrderIsSafe
PROPERTIES NothingLost
\* Jobs and plans run out.
CHECK_DEADLOCK FALSE
