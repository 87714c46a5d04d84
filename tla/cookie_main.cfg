\* Two users on each of two resource servers.
CONSTANTS
  n1 = n1
  n2 = n2
  s1 = s1
  s2 = s2
  None = None
  Names = {n1, n2}
  Servers = {s1, s2}
  Lifespan = 3
  Margin = 1
  Latency = 1
  MaxTime = 5
SPECIFICATION Spec
SYMMETRY Symmetry
CHECK_DEADLOCK FALSE
INVARIANTS TypeOK
PROPERTIES CookieLoginHonoured CookieLoginIsLast
