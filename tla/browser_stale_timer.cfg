\* The timer of the tokens that a silent renewal replaced.
CONSTANTS
  t1 = t1
  t2 = t2
  t3 = t3
  Never = Never
  Tasks = {t1}
  MaxRequests = 2
  MaxTime = 2
  Lifetimes = {1, 2}
  MaxDelay = 5
  UsesRenewal = TRUE
SPECIFICATION Spec
CHECK_DEADLOCK FALSE
PROPERTY NoPrematureLogout
