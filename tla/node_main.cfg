\* Fetches overlap with fetches and redirects with redirects, on either object.
CONSTANTS
  o1 = o1
  o2 = o2
  c1 = c1
  c2 = c2
  c3 = c3
  Absent = Absent
  Objects = {o1, o2}
  Calls = {c1, c2, c3}
  Concurrent = {{"fetch"}, {"redirect"}}
  Rotates = TRUE
  MayFail = TRUE
  MaxRequests = 2
  MaxGrants = 3
SPECIFICATION Spec
SYMMETRY Symmetry
CHECK_DEADLOCK FALSE
INVARIANTS
  TypeOK StoredTokenLive FetchCanRefresh ToldOnce RemovedOnLogout RedirectsOneAtATime
