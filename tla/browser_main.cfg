\* The main window alone: no silent renewal in an iframe.
CONSTANTS
  t1 = t1
  t2 = t2
  t3 = t3
  Never = Never
  Tasks = {t1, t2}
  MaxRequests = 4
  MaxTime = 3
  Lifetimes = {1, 2, Never}
  MaxDelay = 5
  UsesRenewal = FALSE
SPECIFICATION Spec
SYMMETRY TaskSymmetry
CHECK_DEADLOCK FALSE
INVARIANTS TypeOK ExpiryTimerArmed FetchNeedsLogin LoginGivesFetch BouncesOnce LogoutIsFinal
PROPERTIES NoPrematureLogout CodeSentOnce SilentLoginRestores FollowsGrants
