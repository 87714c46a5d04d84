\* Two logins overlap; nobody logs out and nothing crashes.
CONSTANTS
  s1 = s1
  s2 = s2
  s3 = s3
  c1 = c1
  c2 = c2
  Sessions = {s1, s2}
  Callers = {c1, c2}
  Undefined = Undefined
  MayCrash = FALSE
SPECIFICATION Spec
CONSTRAINT OnlyLogins
INVARIANT DataReachable
