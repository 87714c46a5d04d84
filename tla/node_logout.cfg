\* Logouts overlap with fetches.
CONSTANTS
  o1 = o1
  o2 = o2
  c1 = c1
  c2 = c2
  c3 = c3
  Absent = Absent
  Objects = {o1}
  Calls = {c1, c2}
  Concurrent = {{"fetch"}, {"fetch", "logout"}}
  Rotates = TRUE
  MayFail = FALSE
  MaxRequests = 1
  MaxGrants = 2
SPECIFICATION Spec
SYMMETRY Symmetry
CHECK_DEADLOCK FALSE
INVARIANTS RemovedOnLogout
