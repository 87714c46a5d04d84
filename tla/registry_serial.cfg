\* One call at a time: an application that awaits each call, and may crash.
CONSTANTS
  s1 = s1
  s2 = s2
  s3 = s3
  c1 = c1
  c2 = c2
  Sessions = {s1, s2, s3}
  Callers = {c1}
  Undefined = Undefined
  MayCrash = TRUE
SPECIFICATION Spec
INVARIANTS TypeOK DataReachable
PROPERTIES ClearAllClears IsAtomic
