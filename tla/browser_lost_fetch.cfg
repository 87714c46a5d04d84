\* A silent renewal that the identity provider refuses.
CONSTANTS
  t1 = t1
  t2 = t2
  t3 = t3
  Never = Never
  Tasks = {t1}
  MaxRequests = 2
  MaxTime = 2
  Lifetimes = {1, 2}
  MaxDelay = 5
  UsesRenewal = TRUE
SPECIFICATION Spec
CHECK_DEADLOCK FALSE
INVARIANT LoginGivesFetch
